---- MODULE Spec2Model ----
(***************************************************************************)
(* Model of the workflow execution engine of ai-agent-orchestrator:        *)
(* Orchestrator.run (the phase state machine), the post-patch Gatekeeper   *)
(* flow, decideCheckFailure and the RunState snapshot written by           *)
(* persistState.  One run is one behaviour; the workflow, the orchestrator *)
(* options and the run input are drawn in Init, the answers of the         *)
(* providers, of the approval handler and of the external commands are     *)
(* drawn in the actions.                                                   *)
(***************************************************************************)
EXTENDS Integers, Sequences, FiniteSets, TLC

\* undefined / null of the source
None == "none"

(***************************************************************************)
(* Bounds of the model.                                                    *)
(***************************************************************************)
\* max_steps of the workflows drawn is in 1..MaxStepsBound
MaxStepsBound == 3
\* maxAutoFixRetries of the options drawn is in 0..MaxRetriesBound
MaxRetriesBound == 2
\* number of configured check command ids is in 0..MaxChecks
MaxChecks == 2
\* a text given to parseDecisionFromOutput has 0..MaxTokens tokens
MaxTokens == 2
\* a patch block given to extractPatchFromText has 0..MaxPatchLines lines
MaxPatchLines == 3
\* CommandRunner.run is called MaxRunnerCalls times, the calls overlapping
MaxRunnerCalls == 2
\* a diff output given to evaluateRiskFromDiffOutputs has 0..MaxDiffLines lines
\* (or is one of the outputs built around the default thresholds)
MaxDiffLines == 2
\* the writer of the state file performs at most MaxWrites save/update calls
MaxWrites == 2

(***************************************************************************)
(* Program constants.                                                      *)
(***************************************************************************)
DEFAULT_MAX_AUTO_FIX_RETRIES == 2
MAX_AUTO_FIX_RETRIES_LIMIT == 10
DEFAULT_LARGE_CHANGE_FILES == 20
DEFAULT_LARGE_CHANGE_LINES == 500

RunStatuses ==
  {"created", "running", "awaiting_approval", "awaiting_input", "completed", "failed", "canceled"}

VALID_RUN_STATUSES == RunStatuses

PhaseStatuses == {"pending", "running", "completed", "failed", "skipped"}

PATCH_FIRST_ROLES == {"developer", "fixer"}

(***************************************************************************)
(* Strings of the model and what trim().toLowerCase() makes of them.       *)
(***************************************************************************)
TrimLower(s) ==
  CASE s = "Fixer" -> "fixer"
    [] s = "Manager" -> "manager"
    [] s = " developer" -> "developer"
    [] s = " " -> ""
    [] OTHER -> s

Trim(s) ==
  CASE s = " developer" -> "developer"
    [] s = " p1" -> "p1"
    [] s = " p2 " -> "p2"
    [] s = " build " -> "build"
    [] s = " " -> ""
    [] OTHER -> s

\* JavaScript truthiness of an optional string
Truthy(s) == s # None /\ s # ""

(***************************************************************************)
(* Workflow definitions, as parsePhaseEntry builds them.                   *)
(***************************************************************************)
PhaseIds == {"p1", "p2", "p3"}

ApprovalPhase(id, onApprove, onReject, terminal) ==
  [id |-> id, type |-> "approval", role |-> None, provider |-> None,
   systemPromptFile |-> None, next |-> None, decisionSource |-> None,
   nextOnPass |-> None, nextOnFix |-> None, nextOnAsk |-> None,
   nextOnApprove |-> onApprove, nextOnReject |-> onReject,
   terminalStatus |-> terminal]

LlmPhase(id, role, provider, promptFile, next, decisionSource, onPass, onFix, onAsk, terminal) ==
  [id |-> id, type |-> "llm", role |-> role, provider |-> provider,
   systemPromptFile |-> promptFile, next |-> next, decisionSource |-> decisionSource,
   nextOnPass |-> onPass, nextOnFix |-> onFix, nextOnAsk |-> onAsk,
   nextOnApprove |-> None, nextOnReject |-> None,
   terminalStatus |-> terminal]

\* a plain LLM phase: no provider override, inline system prompt, one successor
Plain(id, role, next) ==
  LlmPhase(id, role, None, None, next, None, None, None, None, None)

IdsOf(phases) == {phases[i].id : i \in 1..Len(phases)}

AssertTransitionTargetMutNoCheck(candidatePhaseId, phaseIds) == TRUE

AssertTransitionTarget(candidatePhaseId, phaseIds) ==
  ~Truthy(candidatePhaseId) \/ candidatePhaseId \in phaseIds

ValidatePhaseTransitions(phase, phaseIds) ==
  IF phase.type = "approval"
  THEN /\ AssertTransitionTarget(phase.nextOnApprove, phaseIds)
       /\ AssertTransitionTarget(phase.nextOnReject, phaseIds)
  ELSE /\ AssertTransitionTarget(phase.next, phaseIds)
       /\ AssertTransitionTarget(phase.nextOnPass, phaseIds)
       /\ AssertTransitionTarget(phase.nextOnFix, phaseIds)
       /\ AssertTransitionTarget(phase.nextOnAsk, phaseIds)

\* the checks parseWorkflowYaml makes before it returns a definition
ParserAccepts(w) ==
  /\ Len(w.phases) >= 1
  /\ \A i, j \in 1..Len(w.phases) : w.phases[i].id = w.phases[j].id => i = j
  /\ w.entryPhase \in IdsOf(w.phases)
  /\ w.maxSteps >= 1
  /\ \A i \in 1..Len(w.phases) :
       /\ w.phases[i].type \in {"llm", "approval"}
       /\ w.phases[i].decisionSource \in {None, "output_tag"}
       /\ w.phases[i].terminalStatus \in VALID_RUN_STATUSES \cup {None}
       /\ ValidatePhaseTransitions(w.phases[i], IdsOf(w.phases))


(***************************************************************************)
(* Pure helpers of the orchestrator.                                       *)
(***************************************************************************)
PhaseOf(w, id) == CHOOSE ph \in {w.phases[i] : i \in 1..Len(w.phases)} : ph.id = id

\* findPhaseIdByRole: the first LLM phase, in workflow order, with that role
FindPhaseIdByRole(phases, role) ==
  LET hits == {i \in 1..Len(phases) :
                 phases[i].type = "llm" /\ TrimLower(phases[i].role) = role}
  IN IF hits = {} THEN None
     ELSE phases[CHOOSE i \in hits : \A j \in hits : i <= j].id

IsPatchFirstRoleMutAnyRole(role) == TRUE

IsPatchFirstRole(role) == TrimLower(role) \in PATCH_FIRST_ROLES

IsManagerRole(role) == TrimLower(role) = "manager"

\* a ?? b on optional strings
Coalesce(a, b) == IF a # None THEN a ELSE b

(***************************************************************************)
(* Provider output.  A text is the sequence of the tokens the orchestrator *)
(* looks for in it, together with the patch block it carries, if any.      *)
(***************************************************************************)
Decisions == {"pass", "fix", "ask"}

\* tokens of a text: explicit tags, bracket markers, bare words, other words
Tokens ==
  {"DECISION: PASS", "decision: fix", "Decision : ASK",
   "[ASK]", "[fix]", "[FAIL]", "ask", "FIX",
   "DECISION: PASSED", "fixed", "LGTM", "[AUTO_FIX] fix"}

\* /DECISION\s*:\s*(PASS|FIX|ASK)\b/i on one token: the decision named, or None
ExplicitTag(token) ==
  CASE token = "DECISION: PASS" -> "pass"
    [] token = "decision: fix" -> "fix"
    [] token = "Decision : ASK" -> "ask"
    [] OTHER -> None

\* /\[ASK\]/i
BracketAsk(token) == token = "[ASK]"

\* /\bASK\b/i
WordAsk(token) == token \in {"[ASK]", "ask", "Decision : ASK"}

\* /\[FIX\]/i
BracketFix(token) == token = "[fix]"

\* /\[FAIL\]/i
BracketFail(token) == token = "[FAIL]"

\* /\bFIX\b/i
WordFix(token) == token \in {"[fix]", "FIX", "decision: fix", "[AUTO_FIX] fix"}

ParseDecisionFromOutputMutBracketsOnly(text) ==
  LET tagged == {i \in 1..Len(text.tokens) : ExplicitTag(text.tokens[i]) # None}
  IN IF tagged # {}
     THEN ExplicitTag(text.tokens[CHOOSE i \in tagged : \A j \in tagged : i <= j])
     ELSE IF \E i \in 1..Len(text.tokens) : BracketAsk(text.tokens[i]) THEN "ask"
     ELSE IF \E i \in 1..Len(text.tokens) :
               BracketFix(text.tokens[i]) \/ BracketFail(text.tokens[i]) THEN "fix"
     ELSE "pass"

ParseDecisionFromOutput(text) ==
  LET tagged == {i \in 1..Len(text.tokens) : ExplicitTag(text.tokens[i]) # None}
  IN IF tagged # {}
     THEN ExplicitTag(text.tokens[CHOOSE i \in tagged : \A j \in tagged : i <= j])
     ELSE IF \E i \in 1..Len(text.tokens) :
               BracketAsk(text.tokens[i]) \/ WordAsk(text.tokens[i]) THEN "ask"
     ELSE IF \E i \in 1..Len(text.tokens) :
               \/ BracketFix(text.tokens[i])
               \/ BracketFail(text.tokens[i])
               \/ WordFix(text.tokens[i]) THEN "fix"
     ELSE "pass"

ResolveNextPhaseIdMutNoFallback(phase, outputText) ==
  IF phase.decisionSource = "output_tag"
  THEN LET decision == ParseDecisionFromOutput(outputText)
       IN IF decision = "pass" THEN phase.nextOnPass
          ELSE IF decision = "fix" THEN phase.nextOnFix
          ELSE phase.nextOnAsk
  ELSE phase.next

ResolveNextPhaseId(phase, outputText) ==
  IF phase.decisionSource = "output_tag"
  THEN LET decision == ParseDecisionFromOutput(outputText)
       IN IF decision = "pass" THEN Coalesce(phase.nextOnPass, phase.next)
          ELSE IF decision = "fix" THEN Coalesce(phase.nextOnFix, phase.next)
          ELSE Coalesce(phase.nextOnAsk, phase.next)
  ELSE phase.next

(***************************************************************************)
(* Patches.  A patch is its sequence of lines; a header path is written as *)
(* the sequence of its segments, the first segment "" for an absolute path *)
(* ("/etc/passwd" is <<"", "etc", "passwd">>), inside quotes or not.       *)
(***************************************************************************)
RawPath(quoted, segs) == [quoted |-> quoted, segs |-> segs]

GitLine(a, b) == [kind |-> "git", a |-> a, b |-> b]

OldLine(a) == [kind |-> "old", a |-> a, b |-> a]

NewLine(a) == [kind |-> "new", a |-> a, b |-> a]

HunkLine == [kind |-> "hunk", a |-> RawPath(FALSE, <<>>), b |-> RawPath(FALSE, <<>>)]

OtherLine == [kind |-> "other", a |-> RawPath(FALSE, <<>>), b |-> RawPath(FALSE, <<>>)]

DevNull == <<"", "dev", "null">>

SafeSegs == <<"src", "x.ts">>

ParentSegs == <<"..", "..", "etc", "passwd">>

AbsoluteSegs == <<"", "etc", "passwd">>

\* unquotePatchPath: the path without its surrounding quotes
UnquotePatchPath(raw) == raw.segs

\* the a/ or b/ prefix of a --- or +++ path is dropped
StripPrefix(segs) ==
  IF Len(segs) >= 2 /\ segs[1] \in {"a", "b"} THEN Tail(segs) ELSE segs

\* assertSafePathSegment throws for this path
PathViolation(segs) ==
  \/ segs = <<>>
  \/ segs[1] = ""
  \/ segs[1] = "C:"
  \/ \E i \in 1..Len(segs) : segs[i] = ".."

\* /^diff --git a\/(.+?) b\/(.+)$/ matches the line
GitHeaderMatches(line) ==
  /\ ~line.a.quoted /\ Len(line.a.segs) >= 2 /\ line.a.segs[1] = "a"
  /\ ~line.b.quoted /\ Len(line.b.segs) >= 2 /\ line.b.segs[1] = "b"

\* assertSafePatchPaths throws at this line
LineViolation(line) ==
  IF line.kind = "git"
  THEN /\ GitHeaderMatches(line)
       /\ \/ PathViolation(Tail(UnquotePatchPath(line.a)))
          \/ PathViolation(Tail(UnquotePatchPath(line.b)))
  ELSE IF line.kind \in {"old", "new"}
  THEN /\ UnquotePatchPath(line.a) # DevNull
       /\ PathViolation(StripPrefix(UnquotePatchPath(line.a)))
  ELSE FALSE

\* assertSafePatchPaths returns without throwing
AssertSafePatchPaths(lines) == \A i \in 1..Len(lines) : ~LineViolation(lines[i])

\* assertPatchShape returns without throwing
AssertPatchShape(lines) ==
  \/ \E i \in 1..Len(lines) : lines[i].kind = "git"
  \/ /\ \E i \in 1..Len(lines) : lines[i].kind = "old"
     /\ \E i \in 1..Len(lines) : lines[i].kind = "new"
     /\ \E i \in 1..Len(lines) : lines[i].kind = "hunk"

Extracted(lines) == [ok |-> TRUE, reason |-> None, patch |-> lines]

ExtractionError(reason) == [ok |-> FALSE, reason |-> reason, patch |-> <<>>]

FinalizePatchMutNoChecks(lines) == Extracted(lines)

\* normalizePatchText, assertPatchShape, assertSafePatchPaths
FinalizePatch(lines) ==
  IF lines = <<>> THEN ExtractionError("invalid_format")
  ELSE IF ~AssertPatchShape(lines) THEN ExtractionError("invalid_format")
  ELSE IF ~AssertSafePatchPaths(lines) THEN ExtractionError("path_violation")
  ELSE Extracted(lines)

\* the patch block of a text: found or not, and its lines
Block(lines) == [found |-> TRUE, lines |-> lines]

NoBlock == [found |-> FALSE, lines |-> <<>>]

Text(tokens, patch) == [tokens |-> tokens, patch |-> patch]

ExtractPatchFromText(text) ==
  IF ~text.patch.found THEN ExtractionError("not_found")
  ELSE FinalizePatch(text.patch.lines)

ValidPatch ==
  Block(<<GitLine(RawPath(FALSE, <<"a">> \o SafeSegs), RawPath(FALSE, <<"b">> \o SafeSegs)),
          OldLine(RawPath(FALSE, <<"a">> \o SafeSegs)),
          NewLine(RawPath(FALSE, <<"b">> \o SafeSegs)),
          HunkLine>>)

\* diff --git a/../../etc/passwd b/x
ParentPatch ==
  Block(<<GitLine(RawPath(FALSE, <<"a">> \o ParentSegs), RawPath(FALSE, <<"b", "x">>))>>)

\* the texts the providers of the model return
ProviderTexts ==
  {Text(<<"LGTM">>, ValidPatch),
   Text(<<"[ASK]", "decision: fix">>, ValidPatch),
   Text(<<"[fix]", "ask">>, ValidPatch),
   Text(<<>>, NoBlock),
   Text(<<"DECISION: PASS", "[FAIL]">>, NoBlock),
   Text(<<"FIX">>, Block(<<OtherLine>>)),
   Text(<<"Decision : ASK">>, ParentPatch)}

\* provider id: phase override, then role map, then run default
ResolveProviderFromRole(roleProviderMap, role) ==
  LET hits == {e \in roleProviderMap : e[1] = TrimLower(role)}
  IN IF hits = {} THEN None ELSE Trim((CHOOSE e \in hits : TRUE)[2])

ResolveProviderIdMutRoleFirst(phase, runInput) ==
  IF Truthy(ResolveProviderFromRole(runInput.roleProviderMap, phase.role))
  THEN ResolveProviderFromRole(runInput.roleProviderMap, phase.role)
  ELSE IF Truthy(IF phase.provider = None THEN None ELSE Trim(phase.provider))
  THEN Trim(phase.provider)
  ELSE IF runInput.defaultProviderId = None THEN None
  ELSE Trim(runInput.defaultProviderId)

ResolveProviderId(phase, runInput) ==
  IF Truthy(IF phase.provider = None THEN None ELSE Trim(phase.provider))
  THEN Trim(phase.provider)
  ELSE IF Truthy(ResolveProviderFromRole(runInput.roleProviderMap, phase.role))
  THEN ResolveProviderFromRole(runInput.roleProviderMap, phase.role)
  ELSE IF runInput.defaultProviderId = None THEN None
  ELSE Trim(runInput.defaultProviderId)

(***************************************************************************)
(* Gatekeeper: results of commands and decideCheckFailure.                 *)
(***************************************************************************)
\* exit code -1 stands for the exitCode: null of a killed process
CommandResults == {[exitCode |-> 0, timedOut |-> FALSE],
                   [exitCode |-> 1, timedOut |-> FALSE],
                   [exitCode |-> -1, timedOut |-> TRUE]}

IsFailedResult(result) == result.timedOut \/ result.exitCode # 0

RECURSIVE FailedIndexes(_)
FailedIndexes(results) ==
  IF results = <<>> THEN {}
  ELSE FailedIndexes(SubSeq(results, 1, Len(results) - 1))
         \cup (IF IsFailedResult(results[Len(results)]) THEN {Len(results)} ELSE {})

DecideCheckFailureMutGe(checkResults, retryCount, maxAutoFixRetries) ==
  IF FailedIndexes(checkResults) = {} THEN "pass"
  ELSE IF maxAutoFixRetries - retryCount >= 0 THEN "auto_fix"
  ELSE "fail"

DecideCheckFailure(checkResults, retryCount, maxAutoFixRetries) ==
  IF FailedIndexes(checkResults) = {} THEN "pass"
  ELSE IF maxAutoFixRetries - retryCount > 0 THEN "auto_fix"
  ELSE "fail"

\* an option left undefined is the pair <<FALSE, 0>>, a given value n is <<TRUE, n>>
Undefined == <<FALSE, 0>>

Given(n) == <<TRUE, n>>

NormalizeAutoFixRetryCount(value) ==
  IF ~value[1] THEN DEFAULT_MAX_AUTO_FIX_RETRIES ELSE value[2]

\* the values the constructor accepts
ValidAutoFixRetryCount(value) ==
  ~value[1] \/ (value[2] >= 0 /\ value[2] <= MAX_AUTO_FIX_RETRIES_LIMIT)

(***************************************************************************)
(* RunState and its snapshot.                                              *)
(***************************************************************************)
CreateInitialRunState(w) ==
  [status |-> "running",
   current_phase |-> w.entryPhase,
   phases |-> [id \in IdsOf(w.phases) |-> [status |-> "pending", error |-> None]],
   retries |-> 0,
   artifacts |-> <<>>]

\* what StateStore.save writes: normalizeRunState copies the fields
NormalizeRunState(st) ==
  [status |-> st.status,
   current_phase |-> st.current_phase,
   phases |-> [id \in DOMAIN st.phases |->
                 [status |-> st.phases[id].status, error |-> st.phases[id].error]],
   retries |-> st.retries,
   artifacts |-> st.artifacts]

MarkPhaseRunning(st, id) ==
  [st EXCEPT !.phases[id] = [status |-> "running", error |-> None]]

\* a completion that leaves the phase running
MarkPhaseCompletedMutStillRunning(st, id) == st

MarkPhaseCompleted(st, id) ==
  [st EXCEPT !.phases[id] = [status |-> "completed", error |-> None]]

MarkPhaseFailedMutCompleted(st, id, message) ==
  [st EXCEPT !.phases[id] = [status |-> "completed", error |-> None]]

MarkPhaseFailed(st, id, message) ==
  [st EXCEPT !.phases[id] = [status |-> "failed", error |-> message]]

(***************************************************************************)
(* Artifacts of a run: <phase>/iter-NNNN.<kind>, for a check the kind is   *)
(* check-<suffix> with the suffix normalizeArtifactSuffix makes of the id. *)
(***************************************************************************)
\* trim().toLowerCase().replaceAll(/[^a-z0-9_-]+/g, '-') || 'command'
NormalizeArtifactSuffix(value) ==
  CASE value = "Build" -> "build"
    [] value = "unit test" -> "unit-test"
    [] value = "" -> "command"
    [] OTHER -> value

\* the relative path artifactStore.write resolves for phase and name
\* String(iteration): the decimal digits, most significant first
RECURSIVE DecimalDigits(_)
DecimalDigits(n) ==
  IF n < 10 THEN <<n>> ELSE Append(DecimalDigits(n \div 10), n % 10)

\* padStart(4, '0')
RECURSIVE PadStart(_, _)
PadStart(digits, width) ==
  IF Len(digits) >= width THEN digits ELSE PadStart(<<0>> \o digits, width)

\* the digits NNNN of the prefix iter-NNNN
FormatIteration(iter) == PadStart(DecimalDigits(iter), 4)

\* an artifact named after the execution before
ArtifactMutPreviousIteration(phaseId, iter, kind) ==
  [phase |-> phaseId, iteration |-> iter - 1, kind |-> kind, suffix |-> ""]

Artifact(phaseId, iter, kind) ==
  [phase |-> phaseId, iteration |-> iter, kind |-> kind, suffix |-> ""]

CheckArtifact(phaseId, iter, commandId) ==
  [phase |-> phaseId, iteration |-> iter, kind |-> "check",
   suffix |-> NormalizeArtifactSuffix(commandId)]

\* the check artifacts handleGatekeeperAfterPatch writes, one per result
CheckArtifacts(phaseId, iter, commandIds) ==
  [i \in 1..Len(commandIds) |-> CheckArtifact(phaseId, iter, commandIds[i])]

\* addArtifactToState, for each of the records in turn
AddArtifactsToStateMutNone(st, records) == st

AddArtifactsToState(st, records) == [st EXCEPT !.artifacts = @ \o records]

IsPlanPhase(phase) == TrimLower(phase.id) = "plan" /\ TrimLower(phase.role) = "planner"


(***************************************************************************)
(* The configurations drawn in Init: a workflow the parser accepts, the    *)
(* options of the Orchestrator constructor and the input of run.           *)
(***************************************************************************)
CheckIdPool == <<"build", "test", "lint", "typecheck">>

CheckIdLists == {SubSeq(CheckIdPool, 1, n) : n \in 0..MaxChecks}

\* a list naming a command twice, and a list of two ids that differ in case only
RepeatedCheckIdLists == {<<"build", "build">>, <<"build", "Build">>}

\* a role-to-provider map is its set of <<role, provider id>> entries
NoRoleMap == {}

DefaultInput == [defaultProviderId |-> "mock", roleProviderMap |-> NoRoleMap]

Workflow(entry, maxSteps, phases) ==
  [entryPhase |-> entry, maxSteps |-> maxSteps, phases |-> phases]

Options(gatekeeper, checkCommandIds, maxAutoFixRetries) ==
  [gatekeeper |-> gatekeeper, checkCommandIds |-> checkCommandIds,
   maxAutoFixRetries |-> maxAutoFixRetries]

NoGatekeeper == Options(FALSE, <<>>, Undefined)

Config(w, o, i) == [workflow |-> w, options |-> o, runInput |-> i]

\* plan -> approve -> implement, every shape of the approval phase
ApprovalConfigs ==
  {Config(Workflow("p1", m,
                   <<ApprovalPhase("p1", onA, onR, term),
                     Plain("p2", "developer", None),
                     Plain("p3", "manager", "p1")>>),
          o, DefaultInput) :
     m \in 1..MaxStepsBound,
     onA \in {None, "p2"},
     onR \in {None, "p1", "p3"},
     term \in {None, "completed", "failed", "awaiting_input", "running"},
     o \in {NoGatekeeper, Options(TRUE, <<>>, Undefined)}}

\* implement -> (fix) -> evaluate under a Gatekeeper with checks
AutoFixConfigs ==
  {Config(Workflow("p1", m,
                   <<LlmPhase("p1", "developer", None, None, n1, None, None, None, None, t1),
                     LlmPhase("p2", r2, None, None, n2, None, None, None, None, None),
                     LlmPhase("p3", "evaluator", None, None, None, "output_tag",
                              None, "p2", None, None)>>),
          Options(TRUE, c, x), DefaultInput) :
     m \in 1..MaxStepsBound,
     n1 \in {None, "p1", "p3"},
     t1 \in {None, "completed"},
     r2 \in {"Fixer", "reviewer"},
     n2 \in {None, "p3"},
     c \in CheckIdLists,
     x \in {Given(n) : n \in 0..MaxRetriesBound}}

\* implement -> (fix) under a Gatekeeper whose checks repeat a command
RepeatedCheckConfigs ==
  {Config(Workflow("p1", m,
                   <<LlmPhase("p1", "developer", None, None, None, None, None, None, None, None),
                     LlmPhase("p2", "Fixer", None, None, None, None, None, None, None, None)>>),
          Options(TRUE, c, Undefined), DefaultInput) :
     m \in 1..MaxStepsBound,
     c \in RepeatedCheckIdLists}

\* how the provider of a phase is found, and where its system prompt comes from
ProviderConfigs ==
  {Config(Workflow("p1", m,
                   <<LlmPhase("p1", "planner", pr, f, "p2", None, None, None, None, None),
                     LlmPhase("p2", " developer", None, None, "p3", None, None, None, None, None),
                     ApprovalPhase("p3", None, "p2", None)>>),
          Options(g, <<>>, Undefined),
          [defaultProviderId |-> d, roleProviderMap |-> rm]) :
     m \in 1..MaxStepsBound,
     pr \in {None, " ", "claude"},
     f \in {None, "prompts/system.md", "../system.md"},
     g \in BOOLEAN,
     d \in {None, "mock"},
     rm \in {NoRoleMap,
             {<<"developer", "codex">>, <<"planner", " ">>},
             {<<"developer", "codex">>, <<"planner", "gemini">>}}}

\* evaluate -> (pass | fix | ask), every shape of the transitions of an output_tag phase
DecisionConfigs ==
  {Config(Workflow("p1", m,
                   <<LlmPhase("p1", "evaluator", None, None, n, ds, onP, onF, onA, None),
                     Plain("p2", "reviewer", None),
                     Plain("p3", "planner", "p2")>>),
          NoGatekeeper, DefaultInput) :
     m \in 1..MaxStepsBound,
     n \in {None, "p2"},
     ds \in {None, "output_tag"},
     onP \in {None, "p3"},
     onF \in {None, "p1"},
     onA \in {None, "p3"}}

\* plan -> report: a plan phase and a manager phase, with and without a Gatekeeper
ArtifactConfigs ==
  {Config(Workflow("plan", m,
                   <<LlmPhase("plan", "planner", None, None, "p2", None, None, None, None, None),
                     LlmPhase("p2", "Manager", None, None, n2, None, None, None, None, None),
                     Plain("p3", "developer", None)>>),
          Options(g, <<"build">>, Undefined), DefaultInput) :
     m \in 1..MaxStepsBound,
     n2 \in {None, "plan", "p3"},
     g \in BOOLEAN}

Configs ==
  {c \in ApprovalConfigs \cup AutoFixConfigs \cup ProviderConfigs \cup DecisionConfigs
          \cup ArtifactConfigs \cup RepeatedCheckConfigs :
     ParserAccepts(c.workflow) /\ ValidAutoFixRetryCount(c.options.maxAutoFixRetries)}


(***************************************************************************)
(* State of one run.                                                       *)
(***************************************************************************)
VARIABLES
  workflow,        \* the WorkflowDefinition loaded by run
  options,         \* the OrchestratorOptions
  runInput,        \* defaultProviderId and roleProviderMap of the run input
  state,           \* the in-memory RunState
  disk,            \* the last snapshot written to current-run.json
  currentPhaseId,  \* loop variable of run
  iteration,       \* loop variable of run
  pc,              \* where run is: at the loop head, awaiting a call, left, returned
  executedPhases,  \* the executedPhases list of the result
  output,          \* text of the provider output of the phase being executed
  checkResults,    \* results gathered by runChecks for the phase being executed
  applied,         \* workspace: the iterations whose patch has been applied
  calls,           \* number of provider, approval and command calls made so far
  decisions,       \* history: the check decisions of the Gatekeeper, in order
  gkApproval,      \* history: risk-approval request of the phase being executed
  failure,         \* history: the phase and message of the exception caught
  atBreak,         \* history: calls and applied as they were when the loop was left
  approvalDecision,\* history: answer given in the approval phase just completed
  autoFixFrom,     \* history: phase of the latest auto_fix decision
  autoFixTo,       \* history: phase started right after that decision
  lastDecision,    \* history: decision read from the output of the LLM phase just completed
  artifactFiles,   \* the paths artifactStore.write has written, in the order of the writes
  providerId,      \* the id last handed to providerResolver
  inFlight         \* number of external calls (provider, approval handler, command) in flight

\* The components the orchestrator is built from, each exercised on its own.
VARIABLES
  fnArgs,          \* the arguments a pure function is applied to
  fnResult,        \* what it returned, once applied
  runnerCalls,     \* CommandRunner: the calls of run, each with its position
  runnerLog,       \* CommandRunner: the execution log, one entry per line
  runnerProcs,     \* CommandRunner: the calls for which a process was spawned
  child,           \* CommandRunner: the child process of one call, its timers and events
  fs,              \* StateStore: the files of the run directory
  writer,          \* StateStore: the save or update in progress
  reader,          \* StateStore: a concurrent reader of the state file
  artFiles,        \* ArtifactStore: the files under the artifacts root, the index apart
  artIndex,        \* ArtifactStore: the index file
  artCall          \* ArtifactStore: the last call and what it returned

cfgVars == <<workflow, options, runInput>>

orchestratorVars ==
  <<workflow, options, runInput, state, disk, currentPhaseId, iteration, pc,
    executedPhases, output, checkResults, applied, calls, decisions,
    gkApproval, failure, atBreak, approvalDecision, autoFixFrom, autoFixTo,
    lastDecision, artifactFiles, providerId, inFlight>>

fnVars == <<fnArgs, fnResult>>

runnerVars == <<runnerCalls, runnerLog, runnerProcs, child>>

storeVars == <<fs, writer, reader>>

artifactVars == <<artFiles, artIndex, artCall>>

componentVars == <<fnVars, runnerVars, storeVars, artifactVars>>

vars == <<orchestratorVars, componentVars>>

NoFailure == [phase |-> None, message |-> None]

NoCalls == [provider |-> 0, approval |-> 0, command |-> 0]

NoText == Text(<<>>, NoBlock)

Phase == PhaseOf(workflow, currentPhaseId)

fixPhaseId == FindPhaseIdByRole(workflow.phases, "fixer")

maxAutoFixRetries == NormalizeAutoFixRetryCount(options.maxAutoFixRetries)

\* a group of variables that a specification does not use stays at None
OrchestratorAtRest ==
  /\ workflow = None /\ options = None /\ runInput = None
  /\ state = None /\ disk = None /\ currentPhaseId = None
  /\ iteration = None /\ pc = None /\ executedPhases = None
  /\ output = None /\ checkResults = None /\ applied = None
  /\ calls = None /\ decisions = None /\ gkApproval = None
  /\ failure = None /\ atBreak = None /\ approvalDecision = None
  /\ autoFixFrom = None /\ autoFixTo = None /\ lastDecision = None
  /\ artifactFiles = None /\ providerId = None /\ inFlight = None

FnAtRest == fnArgs = None /\ fnResult = None

RunnerAtRest ==
  runnerCalls = None /\ runnerLog = None /\ runnerProcs = None /\ child = None

StoreAtRest == fs = None /\ writer = None /\ reader = None

ArtifactAtRest == artFiles = None /\ artIndex = None /\ artCall = None

\* the state of run before its loop, for the configuration c
OrchestratorRun(c) ==
  /\ workflow = c.workflow
  /\ options = c.options
  /\ runInput = c.runInput
  /\ state = CreateInitialRunState(workflow)
  /\ disk = NormalizeRunState(state)
  /\ currentPhaseId = workflow.entryPhase
  /\ iteration = 0
  /\ pc = "loop"
  /\ executedPhases = <<>>
  /\ output = NoText
  /\ checkResults = <<>>
  /\ applied = {}
  /\ calls = NoCalls
  /\ decisions = <<>>
  /\ gkApproval = "none"
  /\ failure = NoFailure
  /\ atBreak = [calls |-> NoCalls, applied |-> {}]
  /\ approvalDecision = None
  /\ autoFixFrom = None
  /\ autoFixTo = None
  /\ lastDecision = None
  /\ artifactFiles = <<>>
  /\ providerId = None
  /\ inFlight = 0

Init ==
  /\ \E c \in Configs : OrchestratorRun(c)
  /\ FnAtRest
  /\ RunnerAtRest
  /\ StoreAtRest
  /\ ArtifactAtRest


(***************************************************************************)
(* Steps shared by the branches of the loop body.                          *)
(***************************************************************************)
\* persistState: the snapshot on disk becomes the normalized RunState
\* a store that keeps the status of the previous snapshot
PersistStateMutStaleStatus(st) == [NormalizeRunState(st) EXCEPT !.status = "running"]

PersistState(st) == NormalizeRunState(st)

\* state.status = ...; state.current_phase = ...; persistState; break
Break(st, status, current) ==
  /\ state' = [st EXCEPT !.status = status, !.current_phase = current]
  /\ disk' = PersistState(state')
  /\ pc' = "exit"
  /\ atBreak' = [calls |-> calls, applied |-> applied]
  /\ calls' = calls
  /\ inFlight' = 0
  /\ UNCHANGED currentPhaseId

\* state.status = 'running'; state.current_phase = next; persistState; continue
Continue(st, nextPhaseId) ==
  /\ state' = [st EXCEPT !.status = "running", !.current_phase = nextPhaseId]
  /\ disk' = PersistState(state')
  /\ pc' = "loop"
  /\ currentPhaseId' = nextPhaseId
  /\ inFlight' = 0
  /\ UNCHANGED <<calls, atBreak>>

\* the catch of the loop body: what it makes of the RunState
CatchStateMutKeepsPhase(st, id, message) ==
  [st EXCEPT !.status = "failed", !.current_phase = id]

CatchStateMutNullPhase(st, id, message) ==
  [MarkPhaseFailed(st, id, message) EXCEPT !.status = "failed", !.current_phase = None]

CatchState(st, id, message) ==
  [MarkPhaseFailed(st, id, message) EXCEPT !.status = "failed", !.current_phase = id]

\* the catch of the loop body, entered from the RunState st with the files written
\* so far; the call that threw is no longer in flight
CatchFrom(st, files, message) ==
  /\ state' = CatchState(st, Phase.id, message)
  /\ disk' = PersistState(state')
  /\ pc' = "exit"
  /\ failure' = [phase |-> Phase.id, message |-> message]
  /\ atBreak' = [calls |-> calls, applied |-> applied]
  /\ output' = NoText
  /\ checkResults' = <<>>
  /\ artifactFiles' = files
  /\ inFlight' = IF inFlight > 0 THEN inFlight - 1 ELSE 0
  /\ UNCHANGED <<componentVars, cfgVars, providerId, currentPhaseId, iteration, executedPhases,
                 applied, calls, decisions, gkApproval, approvalDecision,
                 autoFixFrom, autoFixTo, lastDecision>>

Catch(message) == CatchFrom(state, artifactFiles, message)

\* lines 785-836: the end of an LLM phase
CompleteLlmPhase(st, text, nextPhaseOverride, cancelRequestedByGatekeeper) ==
  LET st1 == MarkPhaseCompleted(st, Phase.id)
  IN /\ executedPhases' = Append(executedPhases, Phase.id)
     /\ output' = NoText
     /\ checkResults' = <<>>
     /\ lastDecision' = IF cancelRequestedByGatekeeper \/ nextPhaseOverride # None
                        THEN "overridden"
                        ELSE IF Phase.decisionSource = "output_tag"
                        THEN ParseDecisionFromOutput(text)
                        ELSE "untagged"
     /\ IF cancelRequestedByGatekeeper
        THEN Break(st1, "canceled", None)
        ELSE IF Phase.terminalStatus # None
        THEN Break(st1, Phase.terminalStatus, None)
        ELSE LET nextPhaseId == IF nextPhaseOverride # None
                                THEN nextPhaseOverride
                                ELSE ResolveNextPhaseId(Phase, text)
             IN IF ~Truthy(nextPhaseId)
                THEN Break(st1, "completed", None)
                ELSE Continue(st1, nextPhaseId)

(***************************************************************************)
(* The loop head.                                                          *)
(***************************************************************************)
MaxStepsReachedMutNever(iter, maxSteps) == FALSE

MaxStepsReachedMutOffByOne(iter, maxSteps) == iter > maxSteps

MaxStepsReached(iter, maxSteps) == iter >= maxSteps

MaxStepsExceeded ==
  /\ pc = "loop"
  /\ Truthy(currentPhaseId)
  /\ MaxStepsReached(iteration, workflow.maxSteps)
  /\ Break(state, "failed", currentPhaseId)
  /\ UNCHANGED <<componentVars, cfgVars, providerId, iteration, executedPhases, output, checkResults, applied,
                 decisions, gkApproval, failure, approvalDecision, autoFixFrom, autoFixTo,
                 lastDecision, artifactFiles>>

StartPhase ==
  /\ pc = "loop"
  /\ Truthy(currentPhaseId)
  /\ ~MaxStepsReached(iteration, workflow.maxSteps)
  /\ iteration' = iteration + 1
  /\ state' = [MarkPhaseRunning(state, Phase.id) EXCEPT
                 !.current_phase = Phase.id,
                 !.status = IF Phase.type = "approval" THEN "awaiting_approval" ELSE "running"]
  /\ disk' = PersistState(state')
  /\ IF Phase.type = "approval"
     THEN /\ pc' = "approval"
          /\ calls' = [calls EXCEPT !.approval = @ + 1]
          /\ inFlight' = 1
     ELSE /\ pc' = "resolve"
          /\ calls' = calls
          /\ inFlight' = 0
  /\ output' = NoText
  /\ checkResults' = <<>>
  /\ gkApproval' = "none"
  /\ IF autoFixFrom # None /\ autoFixTo = None
     THEN autoFixTo' = Phase.id /\ autoFixFrom' = autoFixFrom
     ELSE autoFixTo' = None /\ autoFixFrom' = None
  /\ approvalDecision' = None
  /\ lastDecision' = None
  /\ UNCHANGED <<componentVars, cfgVars, providerId, currentPhaseId, executedPhases, applied, decisions, failure,
                 atBreak, artifactFiles>>

(***************************************************************************)
(* Approval phase.                                                         *)
(***************************************************************************)
ApprovalNextMutSwapped(phase, approved) ==
  IF approved THEN phase.nextOnReject ELSE phase.nextOnApprove

ApprovalNext(phase, approved) ==
  IF approved THEN phase.nextOnApprove ELSE phase.nextOnReject

ApprovalReturns ==
  /\ pc = "approval"
  /\ \E approved \in BOOLEAN :
       LET approvalRecord == Artifact(Phase.id, iteration, "approval")
           st1 == MarkPhaseCompleted(AddArtifactsToState(state, <<approvalRecord>>), Phase.id)
       IN /\ approvalDecision' = IF approved THEN "approved" ELSE "rejected"
          /\ artifactFiles' = Append(artifactFiles, approvalRecord)
          /\ executedPhases' = Append(executedPhases, Phase.id)
          /\ IF Phase.terminalStatus # None
             THEN Break(st1, Phase.terminalStatus, None)
             ELSE IF ~Truthy(ApprovalNext(Phase, approved))
             THEN Break(st1, IF approved THEN "completed" ELSE "canceled", None)
             ELSE Continue(st1, ApprovalNext(Phase, approved))
  /\ UNCHANGED <<componentVars, cfgVars, providerId, iteration, output, checkResults, applied, decisions, gkApproval,
                 failure, autoFixFrom, autoFixTo, lastDecision>>

ApprovalThrows ==
  /\ pc = "approval"
  /\ Catch("approval handler failed")


(***************************************************************************)
(* LLM phase: provider resolution, prompts, provider call.                 *)
(***************************************************************************)
\* resolveSystemPromptTemplate refuses a file outside the workspace
PromptFileOutsideWorkspace(file) == file = "../system.md"

ResolveProvider ==
  /\ pc = "resolve"
  /\ Truthy(ResolveProviderId(Phase, runInput))
  /\ ~PromptFileOutsideWorkspace(Phase.systemPromptFile)
  /\ pc' = "provider"
  /\ providerId' = ResolveProviderId(Phase, runInput)
  /\ calls' = [calls EXCEPT !.provider = @ + 1]
  /\ inFlight' = 1
  /\ UNCHANGED <<componentVars, cfgVars, state, disk, currentPhaseId, iteration, executedPhases, output,
                 checkResults, applied, decisions, gkApproval, failure, atBreak,
                 approvalDecision, autoFixFrom, autoFixTo, lastDecision, artifactFiles>>

ResolveThrows ==
  /\ pc = "resolve"
  /\ \E message \in {"provider undetermined", "provider resolver failed",
                     "system prompt outside workspace", "system prompt unreadable"} :
       /\ message = "provider undetermined" => ~Truthy(ResolveProviderId(Phase, runInput))
       /\ message # "provider undetermined" => Truthy(ResolveProviderId(Phase, runInput))
       /\ message = "system prompt outside workspace" =>
            PromptFileOutsideWorkspace(Phase.systemPromptFile)
       /\ message = "system prompt unreadable" =>
            Phase.systemPromptFile # None /\ ~PromptFileOutsideWorkspace(Phase.systemPromptFile)
       /\ Catch(message)

\* lines 700-783 up to the first external call, for the text the provider returned:
\* the raw output is written and recorded, then the manager update, or the plan
\* and the patch that is extracted, written and handed to git apply
ProviderReturns ==
  /\ pc = "provider"
  /\ \E text \in ProviderTexts :
       LET rawRecord == Artifact(Phase.id, iteration, "raw")
           managerOutputRecord == Artifact(Phase.id, iteration, "manager-update")
           plannerArtifacts == IF IsPlanPhase(Phase)
                               THEN <<Artifact(Phase.id, iteration, "plan")>>
                               ELSE <<>>
           patchRecord == Artifact(Phase.id, iteration, "patch")
           st1 == AddArtifactsToState(state, <<rawRecord>>)
           st2 == AddArtifactsToState(st1, plannerArtifacts)
           files2 == Append(artifactFiles, rawRecord) \o plannerArtifacts
       IN IF IsManagerRole(Phase.role)
          THEN /\ CompleteLlmPhase(AddArtifactsToState(st1, <<managerOutputRecord>>),
                                   text, None, FALSE)
               /\ artifactFiles' = artifactFiles \o <<rawRecord, managerOutputRecord>>
               /\ UNCHANGED failure
          ELSE IF IsPatchFirstRole(Phase.role)
          THEN IF ~ExtractPatchFromText(text).ok
               THEN CatchFrom(st2, files2, ExtractPatchFromText(text).reason)
               ELSE IF ~AssertSafePatchPaths(ExtractPatchFromText(text).patch)
               THEN CatchFrom(st2, Append(files2, patchRecord), "path_violation")
               ELSE /\ output' = text
                    /\ pc' = "apply"
                    /\ calls' = [calls EXCEPT !.command = @ + 1]
                    /\ state' = st2
                    /\ artifactFiles' = Append(files2, patchRecord)
                    /\ inFlight' = 1
                    /\ UNCHANGED <<disk, currentPhaseId, executedPhases, checkResults,
                                   failure, atBreak, lastDecision>>
          ELSE /\ CompleteLlmPhase(st2, text, None, FALSE)
               /\ artifactFiles' = files2
               /\ UNCHANGED failure
  /\ UNCHANGED <<componentVars, cfgVars, providerId, iteration, applied, decisions, gkApproval,
                 approvalDecision, autoFixFrom, autoFixTo>>

ProviderThrows ==
  /\ pc = "provider"
  /\ Catch("provider failed")

(***************************************************************************)
(* Patch-first: git apply, then the diff capture.                          *)
(***************************************************************************)
ApplyReturns ==
  /\ pc = "apply"
  /\ applied' = applied \cup {iteration}
  /\ pc' = "capture"
  /\ calls' = [calls EXCEPT !.command = @ + 1]
  /\ UNCHANGED <<componentVars, cfgVars, providerId, state, disk, currentPhaseId, iteration, executedPhases, output,
                 checkResults, decisions, gkApproval, failure, atBreak,
                 approvalDecision, autoFixFrom, autoFixTo, lastDecision, artifactFiles,
                 inFlight>>

ApplyThrows ==
  /\ pc = "apply"
  /\ Catch("patch apply failed")

\* the commands inspectChanges hands to Promise.all
DiffCommandIds == <<"git-diff-name-status", "git-diff-numstat">>

\* the number of calls Promise.all has started when inspectChanges waits
InspectChangesCommandsMutOneMore(commandIds) == Len(commandIds) + 1

InspectChangesCommands(commandIds) == Len(commandIds)

\* the diffstat and the diff are written, processPatchFirstPhase returns its three
\* records; with a Gatekeeper, inspectChanges starts its two commands at once
CaptureReturns ==
  /\ pc = "capture"
  /\ LET patchFirstArtifacts == <<Artifact(Phase.id, iteration, "patch"),
                                  Artifact(Phase.id, iteration, "diffstat"),
                                  Artifact(Phase.id, iteration, "diff")>>
         st1 == AddArtifactsToState(state, patchFirstArtifacts)
     IN /\ artifactFiles' = artifactFiles \o Tail(patchFirstArtifacts)
        /\ IF options.gatekeeper /\ IsPatchFirstRole(Phase.role)
           THEN /\ pc' = "inspect"
                /\ calls' = [calls EXCEPT !.command = @ + InspectChangesCommands(DiffCommandIds)]
                /\ state' = st1
                /\ inFlight' = InspectChangesCommands(DiffCommandIds)
                /\ UNCHANGED <<disk, currentPhaseId, executedPhases, atBreak,
                               output, checkResults, lastDecision>>
           ELSE CompleteLlmPhase(st1, output, None, FALSE)
  /\ UNCHANGED <<componentVars, cfgVars, providerId, iteration, applied, decisions, gkApproval,
                 failure, approvalDecision, autoFixFrom, autoFixTo>>

CaptureThrows ==
  /\ pc = "capture"
  /\ Catch("diff capture failed")

(***************************************************************************)
(* handleGatekeeperAfterPatch.                                             *)
(***************************************************************************)
AwaitingApprovalMutNoStatus(st, id) == [st EXCEPT !.current_phase = id]

AwaitingApproval(st, id) ==
  [st EXCEPT !.status = "awaiting_approval", !.current_phase = id]

CancelRunMutNever(approved) == FALSE

CancelRun(approved) == ~approved

AutoFixTargetMutSamePhase(fixId, phaseId) == phaseId

AutoFixTarget(fixId, phaseId) == Coalesce(fixId, phaseId)

IncrementRetriesMutTwice(st) == [st EXCEPT !.retries = @ + 2]

IncrementRetries(st) == [st EXCEPT !.retries = @ + 1]

\* the text handed on as phaseOutputText once the auto-fix feedback is appended
WithFeedback(text) == [text EXCEPT !.tokens = Append(@, "[AUTO_FIX] fix")]

\* the records handleGatekeeperAfterPatch has collected in this iteration; run adds
\* them to the RunState when the function returns
GatekeeperArtifacts(files) ==
  SelectSeq(files, LAMBDA a : /\ a.phase = Phase.id
                              /\ a.iteration = iteration
                              /\ a.kind \in {"gatekeeper-risk", "gatekeeper-approval", "check"})

\* lines 1142-1149: no check configured ends the flow, else runChecks starts
BeginChecks(st, snapshot, files) ==
  /\ artifactFiles' = files
  /\ IF options.checkCommandIds = <<>>
     THEN CompleteLlmPhase(AddArtifactsToState(st, GatekeeperArtifacts(files)),
                           output, None, FALSE)
     ELSE /\ state' = st
          /\ disk' = snapshot
          /\ pc' = "checks"
          /\ calls' = [calls EXCEPT !.command = @ + 1]
          /\ inFlight' = 1
          /\ UNCHANGED <<currentPhaseId, executedPhases, atBreak, output, checkResults,
                         lastDecision>>

\* one of the two commands of inspectChanges settles while the other is running
DiffCommandSettles ==
  /\ pc = "inspect"
  /\ inFlight > 1
  /\ inFlight' = inFlight - 1
  /\ UNCHANGED <<componentVars, cfgVars, providerId, state, disk, currentPhaseId, iteration, pc,
                 executedPhases, output, checkResults, applied, calls, decisions,
                 gkApproval, failure, atBreak, approvalDecision, autoFixFrom, autoFixTo,
                 lastDecision, artifactFiles>>

\* the second command settles: Promise.all resolves, the risk is written
InspectReturns ==
  /\ pc = "inspect"
  /\ inFlight = 1
  /\ \E requiresApproval \in BOOLEAN :
       LET files == Append(artifactFiles, Artifact(Phase.id, iteration, "gatekeeper-risk"))
       IN IF requiresApproval
          THEN /\ state' = AwaitingApproval(state, Phase.id)
               /\ disk' = PersistState(state')
               /\ pc' = "gk_approval"
               /\ gkApproval' = "pending"
               /\ calls' = [calls EXCEPT !.approval = @ + 1]
               /\ artifactFiles' = files
               /\ inFlight' = 1
               /\ UNCHANGED <<currentPhaseId, executedPhases, atBreak, output,
                              checkResults, lastDecision>>
          ELSE /\ BeginChecks(state, disk, files)
               /\ UNCHANGED gkApproval
  /\ UNCHANGED <<componentVars, cfgVars, providerId, iteration, applied, decisions, failure,
                 approvalDecision, autoFixFrom, autoFixTo>>

\* one of the two commands rejects: Promise.all rejects at once, whatever the other does
InspectThrows ==
  /\ pc = "inspect"
  /\ Catch("risk inspection failed")

GatekeeperApprovalReturns ==
  /\ pc = "gk_approval"
  /\ \E approved \in BOOLEAN :
       LET files == Append(artifactFiles,
                           Artifact(Phase.id, iteration, "gatekeeper-approval"))
       IN IF CancelRun(approved)
          THEN /\ gkApproval' = "rejected"
               /\ artifactFiles' = files
               /\ CompleteLlmPhase(AddArtifactsToState(state, GatekeeperArtifacts(files)),
                                   output, None, TRUE)
          ELSE /\ gkApproval' = IF approved THEN "granted" ELSE "rejected"
               /\ LET st1 == [state EXCEPT !.status = "running", !.current_phase = Phase.id]
                  IN BeginChecks(st1, PersistState(st1), files)
  /\ UNCHANGED <<componentVars, cfgVars, providerId, iteration, applied, decisions, failure,
                 approvalDecision, autoFixFrom, autoFixTo>>

GatekeeperApprovalThrows ==
  /\ pc = "gk_approval"
  /\ Catch("approval handler failed")

\* runChecks gets the result of one more command; after the last one a file is
\* written for each result and the decision is taken
CheckReturns ==
  /\ pc = "checks"
  /\ \E result \in CommandResults :
       LET results == Append(checkResults, result)
           action == DecideCheckFailure(results, state.retries, maxAutoFixRetries)
           files == artifactFiles
                      \o CheckArtifacts(Phase.id, iteration, options.checkCommandIds)
           st1 == AddArtifactsToState(state, GatekeeperArtifacts(files))
       IN IF Len(results) < Len(options.checkCommandIds)
             THEN /\ checkResults' = results
                  /\ calls' = [calls EXCEPT !.command = @ + 1]
                  /\ UNCHANGED <<state, disk, pc, currentPhaseId, executedPhases, decisions,
                                 failure, atBreak, autoFixFrom, autoFixTo, output,
                                 lastDecision, artifactFiles, inFlight>>
             ELSE /\ decisions' = Append(decisions, action)
                  /\ artifactFiles' = files
                  /\ IF action = "pass"
                     THEN /\ CompleteLlmPhase(st1, output, None, FALSE)
                          /\ UNCHANGED <<failure, autoFixFrom, autoFixTo>>
                     ELSE IF action = "auto_fix"
                     THEN /\ CompleteLlmPhase(IncrementRetries(st1), WithFeedback(output),
                                              AutoFixTarget(fixPhaseId, Phase.id), FALSE)
                          /\ autoFixFrom' = Phase.id
                          /\ autoFixTo' = None
                          /\ UNCHANGED failure
                     ELSE /\ state' = CatchState(state, Phase.id, "checks failed, retries exhausted")
                          /\ disk' = PersistState(state')
                          /\ pc' = "exit"
                          /\ failure' = [phase |-> Phase.id,
                                         message |-> "checks failed, retries exhausted"]
                          /\ atBreak' = [calls |-> calls, applied |-> applied]
                          /\ output' = NoText
                          /\ checkResults' = <<>>
                          /\ inFlight' = 0
                          /\ UNCHANGED <<currentPhaseId, executedPhases, calls,
                                         autoFixFrom, autoFixTo, lastDecision>>
  /\ UNCHANGED <<componentVars, cfgVars, providerId, iteration, applied, gkApproval, approvalDecision>>

\* commandRunner.run rejects inside runChecks, which has no try/catch
CheckThrows ==
  /\ pc = "checks"
  /\ Catch("check command failed to run")

\* a command left running by a rejected inspectChanges settles after the loop
StrayCommandSettles ==
  /\ pc \in {"exit", "done"}
  /\ inFlight > 0
  /\ inFlight' = inFlight - 1
  /\ UNCHANGED <<componentVars, cfgVars, providerId, state, disk, currentPhaseId, iteration, pc,
                 executedPhases, output, checkResults, applied, calls, decisions,
                 gkApproval, failure, atBreak, approvalDecision, autoFixFrom, autoFixTo,
                 lastDecision, artifactFiles>>

(***************************************************************************)
(* After the loop: lines 860-884.                                          *)
(***************************************************************************)
Return ==
  /\ pc = "exit"
  /\ IF ~Truthy(currentPhaseId) /\ state.status = "running"
     THEN /\ state' = [state EXCEPT !.status = "completed", !.current_phase = None]
          /\ disk' = PersistState(state')
     ELSE UNCHANGED <<state, disk>>
  /\ pc' = "done"
  /\ UNCHANGED <<componentVars, cfgVars, providerId, currentPhaseId, iteration, executedPhases, output, checkResults,
                 applied, calls, decisions, gkApproval, failure, atBreak,
                 approvalDecision, autoFixFrom, autoFixTo, lastDecision, artifactFiles,
                 inFlight>>

Next ==
  \/ MaxStepsExceeded
  \/ StartPhase
  \/ ApprovalReturns
  \/ ApprovalThrows
  \/ ResolveProvider
  \/ ResolveThrows
  \/ ProviderReturns
  \/ ProviderThrows
  \/ ApplyReturns
  \/ ApplyThrows
  \/ CaptureReturns
  \/ CaptureThrows
  \/ DiffCommandSettles
  \/ StrayCommandSettles
  \/ InspectReturns
  \/ InspectThrows
  \/ GatekeeperApprovalReturns
  \/ GatekeeperApprovalThrows
  \/ CheckReturns
  \/ CheckThrows
  \/ Return

Spec == Init /\ [][Next]_vars

\* the runs with the largest step budget, at most one check, and the default or the
\* largest number of auto-fix retries
LiveConfigs ==
  {c \in Configs : /\ c.workflow.maxSteps = MaxStepsBound
                   /\ Len(c.options.checkCommandIds) <= 1
                   /\ c.options.maxAutoFixRetries \in {Undefined, Given(MaxRetriesBound)}}

LiveInit ==
  /\ \E c \in LiveConfigs : OrchestratorRun(c)
  /\ FnAtRest
  /\ RunnerAtRest
  /\ StoreAtRest
  /\ ArtifactAtRest

\* every call that was started returns or throws in the end, and the loop goes on
\* whenever it can
LiveSpec == LiveInit /\ [][Next]_vars /\ WF_vars(Next)


(***************************************************************************)
(* parseDecisionFromOutput on its own: a text is drawn, the function is    *)
(* applied to it.                                                          *)
(***************************************************************************)
DecisionTexts ==
  {Text(tokens, NoBlock) : tokens \in UNION {[1..n -> Tokens] : n \in 0..MaxTokens}}

\* the function has not been applied yet
NotApplied == [done |-> FALSE]

DecisionInit ==
  /\ OrchestratorAtRest
  /\ RunnerAtRest
  /\ StoreAtRest
  /\ ArtifactAtRest
  /\ fnArgs \in DecisionTexts
  /\ fnResult = NotApplied

ParseDecision ==
  /\ ~fnResult.done
  /\ fnResult' = [done |-> TRUE, decision |-> ParseDecisionFromOutput(fnArgs)]
  /\ UNCHANGED <<fnArgs, orchestratorVars, runnerVars, storeVars, artifactVars>>

DecisionNext == ParseDecision

DecisionSpec == DecisionInit /\ [][DecisionNext]_vars

(***************************************************************************)
(* extractPatchFromText and the check made by applyPatchToWorkspace on     *)
(* their own: a text with a patch block is drawn, the patch is extracted   *)
(* and, when extraction returned one, handed to apply.                     *)
(***************************************************************************)
Prefixed(prefix, segs) == RawPath(FALSE, <<prefix>> \o segs)

Quoted(prefix, segs) == RawPath(TRUE, <<prefix>> \o segs)

Bare(segs) == RawPath(FALSE, segs)

PatchLines ==
  {GitLine(Prefixed("a", SafeSegs), Prefixed("b", SafeSegs)),
   GitLine(Prefixed("a", ParentSegs), Prefixed("b", <<"x">>)),
   GitLine(Prefixed("a", SafeSegs), Prefixed("b", ParentSegs)),
   GitLine(Bare(ParentSegs), Bare(ParentSegs)),
   GitLine(Bare(AbsoluteSegs), Bare(AbsoluteSegs)),
   GitLine(Quoted("a", ParentSegs), Quoted("b", ParentSegs)),
   OldLine(Prefixed("a", SafeSegs)),
   OldLine(Prefixed("a", ParentSegs)),
   OldLine(Bare(AbsoluteSegs)),
   OldLine(Bare(DevNull)),
   OldLine(Quoted("a", ParentSegs)),
   NewLine(Prefixed("b", SafeSegs)),
   NewLine(Prefixed("b", ParentSegs)),
   NewLine(Bare(DevNull)),
   HunkLine,
   OtherLine}

PatchTexts ==
  {Text(<<>>, NoBlock)} \cup
  {Text(<<>>, Block(lines)) : lines \in UNION {[1..n -> PatchLines] : n \in 0..MaxPatchLines}}

PatchInit ==
  /\ OrchestratorAtRest
  /\ RunnerAtRest
  /\ StoreAtRest
  /\ ArtifactAtRest
  /\ fnArgs \in PatchTexts
  /\ fnResult = NotApplied

ExtractPatch ==
  /\ ~fnResult.done
  /\ fnResult' = [done |-> TRUE, extraction |-> ExtractPatchFromText(fnArgs),
                  gitApply |-> "not called"]
  /\ UNCHANGED <<fnArgs, orchestratorVars, runnerVars, storeVars, artifactVars>>

\* applyPatchToWorkspace: assertSafePatchPaths, then git apply with the patch on stdin
ApplyPatch ==
  /\ fnResult.done
  /\ fnResult.extraction.ok
  /\ fnResult.gitApply = "not called"
  /\ fnResult' = [fnResult EXCEPT !.gitApply =
                    IF AssertSafePatchPaths(fnResult.extraction.patch)
                    THEN "called" ELSE "path_violation"]
  /\ UNCHANGED <<fnArgs, orchestratorVars, runnerVars, storeVars, artifactVars>>

PatchNext == ExtractPatch \/ ApplyPatch

PatchSpec == PatchInit /\ [][PatchNext]_vars

(***************************************************************************)
(* CommandRunner.run.  The calls are drawn in Init and may overlap, as the *)
(* two calls of inspectChanges do; each goes through the lookup, the child *)
(* process, the log write and the settling of its promise.                 *)
(***************************************************************************)
\* the ids of tools.commands, as the constructor keys them
AllowedCommandIds == {"build", "test"}

\* the ids run is called with
InputCommandIds == {"build", " build ", "rm-rf", " "}

\* normalizeCommandId returns the trimmed id, and throws on a blank one
NormalizeCommandId(value) == Trim(value)

BlankCommandId(value) == ~Truthy(Trim(value))

\* this.commandMap.get(commandId) finds a command
CommandOfMutAny(commandId) == TRUE

CommandOf(commandId) == commandId \in AllowedCommandIds

\* logExecution appends one line to the log file
LogExecutionMutTwice(log, entry) == Append(Append(log, entry), entry)

LogExecution(log, entry) == Append(log, entry)

RunnerCallIds == 1..MaxRunnerCalls

NoResult == [exitCode |-> 0, timedOut |-> FALSE]

NewCall(commandId) ==
  [commandId |-> commandId, pc |-> "start", event |-> None, result |-> NoResult,
   outcome |-> "pending"]

\* the entry a call is about to log
LogEntry(c) ==
  LET call == runnerCalls[c]
      id == NormalizeCommandId(call.commandId)
  IN IF call.event = "completed"
     THEN [call |-> c, event |-> "completed", commandId |-> id,
           exitCode |-> call.result.exitCode, timedOut |-> call.result.timedOut]
     ELSE [call |-> c, event |-> call.event, commandId |-> id]

RunnerInit ==
  /\ OrchestratorAtRest
  /\ FnAtRest
  /\ StoreAtRest
  /\ ArtifactAtRest
  /\ runnerCalls \in [RunnerCallIds -> {NewCall(id) : id \in InputCommandIds}]
  /\ runnerLog = <<>>
  /\ runnerProcs = {}
  /\ child = None

RunnerFrame == UNCHANGED <<orchestratorVars, fnVars, storeVars, artifactVars, child>>

\* lines 63-64 and 66-71: a blank id throws, an id without command is to be logged as rejected
RunLookup(c) ==
  /\ runnerCalls[c].pc = "start"
  /\ IF BlankCommandId(runnerCalls[c].commandId)
     THEN runnerCalls' = [runnerCalls EXCEPT ![c].pc = "settled", ![c].outcome = "EMPTY_ID"]
     ELSE IF ~CommandOf(NormalizeCommandId(runnerCalls[c].commandId))
     THEN runnerCalls' = [runnerCalls EXCEPT ![c].pc = "log", ![c].event = "rejected"]
     ELSE runnerCalls' = [runnerCalls EXCEPT ![c].pc = "spawn"]
  /\ UNCHANGED <<runnerLog, runnerProcs>>
  /\ RunnerFrame

\* line 90: spawn starts the child process
SpawnStarts(c) ==
  /\ runnerCalls[c].pc = "spawn"
  /\ runnerProcs' = runnerProcs \cup {c}
  /\ runnerCalls' = [runnerCalls EXCEPT ![c].pc = "running"]
  /\ UNCHANGED runnerLog
  /\ RunnerFrame

\* lines 119-134 and 165-186: spawn throws, or the child emits error before it runs
SpawnFails(c) ==
  /\ runnerCalls[c].pc = "spawn"
  /\ runnerCalls' = [runnerCalls EXCEPT ![c].pc = "log", ![c].event = "spawn_failed"]
  /\ UNCHANGED <<runnerLog, runnerProcs>>
  /\ RunnerFrame

\* lines 136-153: the child closes, on its own or killed by the timer
ProcessCloses(c) ==
  /\ runnerCalls[c].pc = "running"
  /\ \E result \in CommandResults :
       runnerCalls' = [runnerCalls EXCEPT ![c].pc = "log", ![c].event = "completed",
                                          ![c].result = result]
  /\ UNCHANGED <<runnerLog, runnerProcs>>
  /\ RunnerFrame

\* lines 119-134: the running child emits error before it closes
ProcessErrors(c) ==
  /\ runnerCalls[c].pc = "running"
  /\ runnerCalls' = [runnerCalls EXCEPT ![c].pc = "log", ![c].event = "spawn_failed"]
  /\ UNCHANGED <<runnerLog, runnerProcs>>
  /\ RunnerFrame

\* lines 72-76, 167-171, 180-184, 188-197: await this.logExecution(...)
LogWritten(c) ==
  /\ runnerCalls[c].pc = "log"
  /\ runnerLog' = LogExecution(runnerLog, LogEntry(c))
  /\ runnerCalls' = [runnerCalls EXCEPT ![c].pc = "logged"]
  /\ UNCHANGED runnerProcs
  /\ RunnerFrame

\* lines 202-206: mkdir or appendFile rejects, and run rejects with that error
LogWriteFails(c) ==
  /\ runnerCalls[c].pc = "log"
  /\ runnerCalls' = [runnerCalls EXCEPT ![c].pc = "settled", ![c].outcome = "LOG_ERROR"]
  /\ UNCHANGED <<runnerLog, runnerProcs>>
  /\ RunnerFrame

\* lines 77, 172, 185, 199: throw error / return result
Settle(c) ==
  /\ runnerCalls[c].pc = "logged"
  /\ runnerCalls' = [runnerCalls EXCEPT
                       ![c].pc = "settled",
                       ![c].outcome = CASE runnerCalls[c].event = "rejected" -> "NOT_ALLOWED"
                                        [] runnerCalls[c].event = "spawn_failed" -> "SPAWN_FAILED"
                                        [] OTHER -> "returned"]
  /\ UNCHANGED <<runnerLog, runnerProcs>>
  /\ RunnerFrame

RunnerNext ==
  \E c \in RunnerCallIds :
    \/ RunLookup(c)
    \/ SpawnStarts(c)
    \/ SpawnFails(c)
    \/ ProcessCloses(c)
    \/ ProcessErrors(c)
    \/ LogWritten(c)
    \/ LogWriteFails(c)
    \/ Settle(c)

RunnerSpec == RunnerInit /\ [][RunnerNext]_vars

(***************************************************************************)
(* evaluateRiskFromDiffOutputs.  A diff output is a sequence of lines, a   *)
(* line the sequence of its tab-separated cells.                           *)
(***************************************************************************)
\* DEFAULT_SECURITY_PATH_PATTERN.test(filePath), for the paths of the model
SecurityPathPattern(filePath) ==
  filePath \in {"src/auth/login.ts", ".env", "config/secrets/key.pem"}

\* parts[i] of a line, "" where the code reads undefined
Part(parts, i) == IF i <= Len(parts) THEN parts[i] ELSE ""

\* rawStatus[0]
FirstChar(rawStatus) ==
  CASE rawStatus = "R100" -> "R"
    [] OTHER -> rawStatus

\* Number.parseInt(raw, 10), NaN being not finite
ParseInt(raw) ==
  CASE raw = "0" -> [finite |-> TRUE, value |-> 0]
    [] raw = "1" -> [finite |-> TRUE, value |-> 1]
    [] raw = "250" -> [finite |-> TRUE, value |-> 250]
    [] OTHER -> [finite |-> FALSE, value |-> 0]

RECURSIVE ParseNameStatusOutput(_)
ParseNameStatusOutput(diffOutput) ==
  IF diffOutput = <<>> THEN <<>>
  ELSE LET parts == Head(diffOutput)
           rawStatus == Part(parts, 1)
           path == IF Len(parts) >= 3 THEN parts[3] ELSE Part(parts, 2)
           rest == ParseNameStatusOutput(Tail(diffOutput))
       IN IF rawStatus = "" \/ path = ""
          THEN rest
          ELSE <<[status |-> FirstChar(rawStatus), path |-> path]>> \o rest

RECURSIVE ParseNumstatOutput(_)
ParseNumstatOutput(diffOutput) ==
  IF diffOutput = <<>> THEN <<>>
  ELSE LET parts == Head(diffOutput)
           addedRaw == Part(parts, 1)
           deletedRaw == Part(parts, 2)
           path == Part(parts, 3)
           added == IF addedRaw = "-" THEN [finite |-> TRUE, value |-> 0] ELSE ParseInt(addedRaw)
           deleted == IF deletedRaw = "-" THEN [finite |-> TRUE, value |-> 0] ELSE ParseInt(deletedRaw)
           rest == ParseNumstatOutput(Tail(diffOutput))
       IN IF path = "" \/ ~added.finite \/ ~deleted.finite
          THEN rest
          ELSE <<[added |-> added.value, deleted |-> deleted.value, path |-> path]>> \o rest

\* a command result as evaluateRiskFromDiffOutputs takes it: optional
NoCommandResult == [supplied |-> FALSE, exitCode |-> 0, timedOut |-> FALSE]

Supplied(result) == [supplied |-> TRUE, exitCode |-> result.exitCode, timedOut |-> result.timedOut]

\* isFailedResult of an optional result
IsFailedOptionalResult(result) == result.supplied /\ IsFailedResult(result)

\* new Set(...) keeps the insertion order of its distinct members
RECURSIVE AddPaths(_, _)
AddPaths(paths, entries) ==
  IF entries = <<>> THEN paths
  ELSE AddPaths(IF \E i \in 1..Len(paths) : paths[i] = Head(entries).path
                THEN paths
                ELSE Append(paths, Head(entries).path),
                Tail(entries))

RECURSIVE SumChangedLines(_)
SumChangedLines(entries) ==
  IF entries = <<>> THEN 0
  ELSE Head(entries).added + Head(entries).deleted + SumChangedLines(Tail(entries))

DeletedEntry(entry) == entry.status = "D"

RECURSIVE DeletedFiles(_)
DeletedFiles(entries) ==
  IF entries = <<>> THEN <<>>
  ELSE (IF DeletedEntry(Head(entries)) THEN <<Head(entries).path>> ELSE <<>>)
       \o DeletedFiles(Tail(entries))

RECURSIVE SecuritySensitiveFiles(_)
SecuritySensitiveFiles(paths) ==
  IF paths = <<>> THEN <<>>
  ELSE (IF SecurityPathPattern(Head(paths)) THEN <<Head(paths)>> ELSE <<>>)
       \o SecuritySensitiveFiles(Tail(paths))

\* threshold ?? DEFAULT
OrDefault(option, default) == IF option = Undefined THEN default ELSE option[2]

ThresholdReachedMutStrict(count, threshold) == count > threshold

ThresholdReached(count, threshold) == count >= threshold

EvaluateRiskFromDiffOutputs(input) ==
  LET nameStatusEntries == ParseNameStatusOutput(input.nameStatusOutput)
      numstatEntries == ParseNumstatOutput(input.numstatOutput)
      deletedFiles == DeletedFiles(nameStatusEntries)
      changedPaths == AddPaths(AddPaths(<<>>, nameStatusEntries), numstatEntries)
      securitySensitiveFiles == SecuritySensitiveFiles(changedPaths)
      changedFileCount == Len(changedPaths)
      totalChangedLines == SumChangedLines(numstatEntries)
      largeChangeFileThreshold == OrDefault(input.largeChangeFileThreshold, DEFAULT_LARGE_CHANGE_FILES)
      largeChangeLineThreshold == OrDefault(input.largeChangeLineThreshold, DEFAULT_LARGE_CHANGE_LINES)
      reasons ==
        (IF IsFailedOptionalResult(input.nameStatusResult) THEN <<"name_status_failed">> ELSE <<>>)
        \o (IF IsFailedOptionalResult(input.numstatResult) THEN <<"numstat_failed">> ELSE <<>>)
        \o (IF Len(deletedFiles) > 0 THEN <<"deleted">> ELSE <<>>)
        \o (IF Len(securitySensitiveFiles) > 0 THEN <<"security">> ELSE <<>>)
        \o (IF ThresholdReached(changedFileCount, largeChangeFileThreshold)
            THEN <<"large_files">> ELSE <<>>)
        \o (IF ThresholdReached(totalChangedLines, largeChangeLineThreshold)
            THEN <<"large_lines">> ELSE <<>>)
  IN [done |-> TRUE,
      requiresApproval |-> Len(reasons) > 0,
      reasons |-> reasons,
      deletedFiles |-> deletedFiles,
      securitySensitiveFiles |-> securitySensitiveFiles,
      changedFileCount |-> changedFileCount,
      totalChangedLines |-> totalChangedLines]

\* lines of git diff --name-status
NameStatusLines ==
  {<<"M", "src/a.ts">>, <<"D", "src/b.ts">>, <<"A", "src/auth/login.ts">>,
   <<"R100", "src/a.ts", "src/c.ts">>, <<"M">>}

\* lines of git diff --numstat
NumstatLines ==
  {<<"1", "-", "src/a.ts">>, <<"250", "250", "src/c.ts">>, <<"1", "x", "src/b.ts">>,
   <<"0", "1", ".env">>}

\* distinct paths, enough to reach the default file threshold
ManyPaths ==
  <<"f01", "f02", "f03", "f04", "f05", "f06", "f07", "f08", "f09", "f10",
    "f11", "f12", "f13", "f14", "f15", "f16", "f17", "f18", "f19", "f20">>

ManyModified(n) == [i \in 1..n |-> <<"M", ManyPaths[i]>>]

NameStatusOutputs ==
  UNION {[1..n -> NameStatusLines] : n \in 0..MaxDiffLines}
  \cup {ManyModified(DEFAULT_LARGE_CHANGE_FILES - 1), ManyModified(DEFAULT_LARGE_CHANGE_FILES)}

NumstatOutputs == UNION {[1..n -> NumstatLines] : n \in 0..MaxDiffLines}

OptionalResults == {NoCommandResult} \cup {Supplied(result) : result \in CommandResults}

RiskInputs ==
  [nameStatusOutput : NameStatusOutputs,
   numstatOutput : NumstatOutputs,
   nameStatusResult : OptionalResults,
   numstatResult : OptionalResults,
   largeChangeFileThreshold : {Undefined, Given(2)},
   largeChangeLineThreshold : {Undefined, Given(2)}]

RiskInit ==
  /\ OrchestratorAtRest
  /\ RunnerAtRest
  /\ StoreAtRest
  /\ ArtifactAtRest
  /\ fnArgs \in RiskInputs
  /\ fnResult = NotApplied

EvaluateRisk ==
  /\ ~fnResult.done
  /\ fnResult' = EvaluateRiskFromDiffOutputs(fnArgs)
  /\ UNCHANGED <<fnArgs, orchestratorVars, runnerVars, storeVars, artifactVars>>

RiskNext == EvaluateRisk

RiskSpec == RiskInit /\ [][RiskNext]_vars

(***************************************************************************)
(* StateStore.  The file system holds the state file and the temp file of  *)
(* a write as links to inodes; the content of an inode is the sequence of  *)
(* chunks written so far.  A writer calls save and update, a reader reads  *)
(* the state file chunk by chunk while the writer runs.                    *)
(***************************************************************************)
NullValue == [type |-> "null", value |-> ""]

StringValue(s) == [type |-> "string", value |-> s]

NumberValue == [type |-> "number", value |-> "7"]

ArrayOf(items) == [isArray |-> TRUE, items |-> items]

NotAnArray == [isArray |-> FALSE, items |-> <<>>]

\* createMissingState without initialState: createInitialRunState() at the time now
CreateMissingState(now) ==
  [status |-> "created", current_phase |-> NullValue, phases |-> ArrayOf(<<>>), retries |-> 0,
   updatedAt |-> now]

\* assertValidRunState does not throw (and state.phases.map before it does not)
AssertValidRunStateMutNoChecks(st) == TRUE

AssertValidRunState(st) ==
  /\ st.status # ""
  /\ st.phases.isArray
  /\ st.retries \in Nat
  /\ st.current_phase.type \in {"null", "string"}
  /\ \A i \in 1..Len(st.phases.items) :
       /\ st.phases.items[i].id # ""
       /\ st.phases.items[i].status # ""

\* normalizeRunState with its options: the state it returns, when valid
NormalizeWithOptions(st, touchUpdatedAt, now) ==
  IF touchUpdatedAt THEN [st EXCEPT !.updatedAt = now] ELSE st

\* the updaters the writer passes to update; "throws" raises an error
Updaters ==
  {"retry", "fail_phase", "throws", "blank_status", "negative_retries", "numeric_current_phase",
   "phase_without_id", "phases_not_array"}

ApplyUpdater(updater, st) ==
  CASE updater = "retry" -> [st EXCEPT !.retries = @ + 1]
    [] updater = "fail_phase" ->
         [st EXCEPT !.status = "failed", !.current_phase = StringValue("p1"),
                       !.phases = ArrayOf(<<[id |-> "p1", status |-> "failed"]>>)]
    [] updater = "blank_status" -> [st EXCEPT !.status = ""]
    [] updater = "negative_retries" -> [st EXCEPT !.retries = -1]
    [] updater = "numeric_current_phase" -> [st EXCEPT !.current_phase = NumberValue]
    [] updater = "phase_without_id" ->
         [st EXCEPT !.phases = ArrayOf(<<[id |-> "", status |-> "running"]>>)]
    [] updater = "phases_not_array" -> [st EXCEPT !.phases = NotAnArray]
    [] OTHER -> st

\* JSON.stringify(data, null, 2), in the two chunks writeFile writes it in
Serialize(st) ==
  <<[status |-> st.status, retries |-> st.retries],
    [current_phase |-> st.current_phase, phases |-> st.phases,
     updatedAt |-> st.updatedAt]>>

\* JSON.parse succeeds on a complete text only
Parses(content) == Len(content) = 2

Parse(content) ==
  [status |-> content[1].status, retries |-> content[1].retries,
   current_phase |-> content[2].current_phase, phases |-> content[2].phases,
   updatedAt |-> content[2].updatedAt]

\* the state file as a reader of the directory finds it
StateFileExists(fsys) == fsys.stateIno # 0

StateFileContent(fsys) == IF StateFileExists(fsys) THEN fsys.inodes[fsys.stateIno] ELSE <<>>

StateFile(fsys) == [found |-> StateFileExists(fsys), content |-> StateFileContent(fsys)]

\* writeFile opens the file it writes: a new temp file in the directory of the state file
OpenForWriteMutInPlace(fsys) ==
  IF StateFileExists(fsys)
  THEN [fsys EXCEPT !.inodes[fsys.stateIno] = <<>>, !.tempIno = fsys.stateIno]
  ELSE [fsys EXCEPT !.inodes = Append(@, <<>>), !.tempIno = Len(fsys.inodes) + 1,
                    !.stateIno = Len(fsys.inodes) + 1]

OpenForWrite(fsys) ==
  [fsys EXCEPT !.inodes = Append(@, <<>>), !.tempIno = Len(fsys.inodes) + 1]

\* states given to save
SaveStates ==
  {[status |-> "running", current_phase |-> StringValue("p1"),
    phases |-> ArrayOf(<<[id |-> "p1", status |-> "running"]>>), retries |-> 0, updatedAt |-> 0],
   [status |-> "", current_phase |-> NullValue, phases |-> ArrayOf(<<>>), retries |-> 0,
    updatedAt |-> 0]}

StateOnDisk ==
  [status |-> "running", current_phase |-> StringValue("p0"),
   phases |-> ArrayOf(<<[id |-> "p0", status |-> "running"]>>), retries |-> 0, updatedAt |-> 0]

NoOp == [kind |-> "none", updater |-> "none", createIfMissing |-> FALSE]

StoreInit ==
  /\ ArtifactAtRest
  /\ OrchestratorAtRest
  /\ FnAtRest
  /\ RunnerAtRest
  /\ fs \in {[stateIno |-> 0, tempIno |-> 0, inodes |-> <<>>],
              [stateIno |-> 1, tempIno |-> 0, inodes |-> <<Serialize(StateOnDisk)>>]}
  /\ writer = [pc |-> "idle", op |-> NoOp, pending |-> <<>>, before |-> StateFile(fs),
               committed |-> StateFile(fs), outcome |-> "none", calls |-> 0]
  /\ reader = [pc |-> "idle", inode |-> 0, buffer |-> <<>>, observed |-> StateFile(fs),
               candidates |-> {StateFile(fs)}, reads |-> 0]

StoreFrame == UNCHANGED <<orchestratorVars, fnVars, runnerVars, artifactVars>>

Fails(op, reason) ==
  writer' = [writer EXCEPT !.op = op, !.before = StateFile(fs), !.pending = <<>>,
                           !.outcome = reason, !.calls = @ + 1]

Writes(op, st) ==
  writer' = [writer EXCEPT !.pc = "open", !.op = op, !.before = StateFile(fs),
                           !.pending = Serialize(st), !.outcome = "pending", !.calls = @ + 1]

\* save, up to the call of writeJsonAtomically
Save(st) ==
  /\ writer.pc = "idle"
  /\ writer.calls < MaxWrites
  /\ LET op == [kind |-> "save", updater |-> "none", createIfMissing |-> FALSE]
     IN IF AssertValidRunState(st)
        THEN Writes(op, NormalizeWithOptions(st, FALSE, writer.calls + 1))
        ELSE Fails(op, "invalid")
  /\ UNCHANGED <<fs, reader>>
  /\ StoreFrame

\* update, up to the call of writeJsonAtomically: load, createMissingState, updater, normalizeRunState
Update(updater, createIfMissing) ==
  /\ writer.pc = "idle"
  /\ writer.calls < MaxWrites
  /\ LET op == [kind |-> "update", updater |-> updater, createIfMissing |-> createIfMissing]
         now == writer.calls + 1
         current == IF StateFileExists(fs)
                    THEN Parse(StateFileContent(fs))
                    ELSE CreateMissingState(now)
         next == ApplyUpdater(updater, current)
     IN IF ~StateFileExists(fs) /\ ~createIfMissing THEN Fails(op, "missing")
        ELSE IF updater = "throws" THEN Fails(op, "updater_threw")
        ELSE IF ~AssertValidRunState(next) THEN Fails(op, "invalid")
        ELSE Writes(op, NormalizeWithOptions(next, TRUE, now))
  /\ UNCHANGED <<fs, reader>>
  /\ StoreFrame

\* writeFile creates the temp file
CreateTemp ==
  /\ writer.pc = "open"
  /\ fs' = OpenForWrite(fs)
  /\ writer' = [writer EXCEPT !.pc = "write"]
  /\ UNCHANGED reader
  /\ StoreFrame

\* writeFile writes the next chunk of the text
WriteChunk ==
  /\ writer.pc = "write"
  /\ LET written == Len(fs.inodes[fs.tempIno])
     IN /\ written < Len(writer.pending)
        /\ fs' = [fs EXCEPT !.inodes[fs.tempIno] = Append(@, writer.pending[written + 1])]
        /\ writer' = [writer EXCEPT
                        !.pc = IF written + 1 = Len(writer.pending) THEN "rename" ELSE "write"]
  /\ UNCHANGED reader
  /\ StoreFrame

\* mkdir or writeFile rejects: the temp file stays as it is
WriteFails ==
  /\ writer.pc \in {"open", "write"}
  /\ writer' = [writer EXCEPT !.pc = "idle", !.outcome = "write_failed"]
  /\ fs' = [fs EXCEPT !.tempIno = 0]
  /\ UNCHANGED reader
  /\ StoreFrame

\* rename(tempFilePath, filePath): the name of the state file now leads to the temp inode
Rename ==
  /\ writer.pc = "rename"
  /\ fs' = [fs EXCEPT !.stateIno = fs.tempIno, !.tempIno = 0]
  /\ writer' = [writer EXCEPT !.pc = "idle", !.outcome = "written",
                               !.committed = [found |-> TRUE, content |-> writer.pending]]
  /\ reader' = IF reader.pc = "reading"
               THEN [reader EXCEPT !.candidates = @ \cup {StateFile(fs')}]
               ELSE reader
  /\ StoreFrame

\* rename rejects: rm(tempFilePath) and rethrow
RenameFails ==
  /\ writer.pc = "rename"
  /\ fs' = [fs EXCEPT !.tempIno = 0]
  /\ writer' = [writer EXCEPT !.pc = "idle", !.outcome = "rename_failed"]
  /\ UNCHANGED reader
  /\ StoreFrame

\* the writing process dies
Crash ==
  /\ writer.pc \in {"open", "write", "rename"}
  /\ writer' = [writer EXCEPT !.pc = "crashed", !.outcome = "crashed"]
  /\ UNCHANGED <<fs, reader>>
  /\ StoreFrame

\* readFile opens the state file
ReaderOpens ==
  /\ reader.pc = "idle"
  /\ reader.reads < MaxWrites
  /\ IF StateFileExists(fs)
     THEN reader' = [reader EXCEPT !.pc = "reading", !.inode = fs.stateIno, !.buffer = <<>>,
                                   !.candidates = {StateFile(fs)}, !.reads = @ + 1]
     ELSE reader' = [reader EXCEPT !.observed = StateFile(fs), !.candidates = {StateFile(fs)},
                                   !.reads = @ + 1]
  /\ UNCHANGED <<fs, writer>>
  /\ StoreFrame

\* readFile reads the next chunk of the open file
ReaderReads ==
  /\ reader.pc = "reading"
  /\ Len(reader.buffer) < Len(fs.inodes[reader.inode])
  /\ reader' = [reader EXCEPT !.buffer = Append(@, fs.inodes[reader.inode][Len(@) + 1])]
  /\ UNCHANGED <<fs, writer>>
  /\ StoreFrame

\* readFile reaches the end of the file and returns what it read
ReaderReturns ==
  /\ reader.pc = "reading"
  /\ Len(reader.buffer) = Len(fs.inodes[reader.inode])
  /\ reader' = [reader EXCEPT !.pc = "idle", !.inode = 0, !.buffer = <<>>,
                               !.observed = [found |-> TRUE, content |-> reader.buffer]]
  /\ UNCHANGED <<fs, writer>>
  /\ StoreFrame

StoreNext ==
  \/ \E st \in SaveStates : Save(st)
  \/ \E updater \in Updaters, createIfMissing \in BOOLEAN : Update(updater, createIfMissing)
  \/ CreateTemp
  \/ WriteChunk
  \/ WriteFails
  \/ Rename
  \/ RenameFails
  \/ Crash
  \/ ReaderOpens
  \/ ReaderReads
  \/ ReaderReturns

StoreSpec == StoreInit /\ [][StoreNext]_vars

(***************************************************************************)
(* ArtifactStore.  A path is the sequence of its segments; the phase and   *)
(* the name of a reference are given as a path that may be blank or        *)
(* absolute.  The index file lies directly under the artifacts root.       *)
(***************************************************************************)
MaxArtifactCalls == 3

RelativeGiven(segs) == [blank |-> FALSE, abs |-> FALSE, segs |-> segs]

AbsoluteGiven(segs) == [blank |-> FALSE, abs |-> TRUE, segs |-> segs]

BlankGiven == [blank |-> TRUE, abs |-> FALSE, segs |-> <<>>]

\* plan, ., a/.., .., a/b and a blank phase
PhaseInputs ==
  {RelativeGiven(<<"plan">>), RelativeGiven(<<".">>), RelativeGiven(<<"a", "..">>),
   RelativeGiven(<<"..">>), RelativeGiven(<<"a", "b">>), BlankGiven}

\* out.txt, index.json, sub/../out.txt, ../index.json and /etc/x
NameInputs ==
  {RelativeGiven(<<"out.txt">>), RelativeGiven(<<"index.json">>),
   RelativeGiven(<<"sub", "..", "out.txt">>), RelativeGiven(<<"..", "index.json">>),
   AbsoluteGiven(<<"etc", "x">>)}

IndexFilePath == <<"index.json">>

\* path.posix.normalize on the segments: . is dropped, .. takes back the segment
\* before it, and stays when there is none to take back in a relative path
RECURSIVE PosixNormalize(_, _, _)
PosixNormalize(segs, abs, acc) ==
  IF segs = <<>> THEN acc
  ELSE LET seg == Head(segs)
       IN IF seg = "." THEN PosixNormalize(Tail(segs), abs, acc)
          ELSE IF seg = ".."
          THEN IF acc # <<>> /\ acc[Len(acc)] # ".."
               THEN PosixNormalize(Tail(segs), abs, SubSeq(acc, 1, Len(acc) - 1))
               ELSE IF abs THEN PosixNormalize(Tail(segs), abs, acc)
               ELSE PosixNormalize(Tail(segs), abs, Append(acc, ".."))
          ELSE PosixNormalize(Tail(segs), abs, Append(acc, seg))

Rejected == [ok |-> FALSE, path |-> <<>>]

\* the empty path of an accepted value stands for "."
NormalizeRelativePath(value) ==
  IF value.blank THEN Rejected
  ELSE LET normalized == PosixNormalize(value.segs, value.abs, <<>>)
       IN IF value.abs \/ (normalized # <<>> /\ normalized[1] = "..")
          THEN Rejected
          ELSE [ok |-> TRUE, path |-> normalized]

\* normalized.includes('/')
NormalizePhase(value) ==
  LET normalized == NormalizeRelativePath(value)
  IN IF normalized.ok /\ Len(normalized.path) > 1 THEN Rejected ELSE normalized

\* relative === '' || (!relative.startsWith('..') && !path.isAbsolute(relative))
EnsurePathWithinRoot(relative) == relative = <<>> \/ relative[1] # ".."

\* path.resolve(artifactsDir, phase, name), relative to the artifacts root
ResolveArtifactPath(ref) ==
  LET phase == NormalizePhase(ref.phase)
      name == NormalizeRelativePath(ref.name)
      relativePath == PosixNormalize(phase.path \o name.path, FALSE, <<>>)
  IN IF ~phase.ok \/ ~name.ok \/ ~EnsurePathWithinRoot(relativePath)
     THEN Rejected
     ELSE [ok |-> TRUE, path |-> relativePath]

\* scanArtifacts: every file but the index, if it lies in a directory of the root
ScanArtifacts(files) == {f \in files : Len(f) >= 2}

\* the index file is missing, valid, corrupt, of the wrong shape, or holds an artifact
\* readIndexIfExists: null for a missing file, the records of a well-formed index,
\* and an exception for everything else
ReadIndexIfExistsMutForgiving(index) ==
  IF index.kind = "valid"
  THEN [ok |-> TRUE, found |-> TRUE, records |-> index.records]
  ELSE [ok |-> TRUE, found |-> FALSE, records |-> {}]

ReadIndexIfExists(index) ==
  IF index.kind = "missing" THEN [ok |-> TRUE, found |-> FALSE, records |-> {}]
  ELSE IF index.kind = "valid" THEN [ok |-> TRUE, found |-> TRUE, records |-> index.records]
  ELSE [ok |-> FALSE, found |-> FALSE, records |-> {}]

NoRef == [phase |-> BlankGiven, name |-> BlankGiven]

ArtifactCall(op, ref, ok, accepted, path, records, n) ==
  [op |-> op, ref |-> ref, ok |-> ok, accepted |-> accepted, path |-> path,
   records |-> records, indexBefore |-> artIndex.kind, filesBefore |-> artFiles,
   count |-> n]

ArtifactInit ==
  /\ OrchestratorAtRest
  /\ FnAtRest
  /\ RunnerAtRest
  /\ StoreAtRest
  /\ artFiles = {}
  /\ artIndex = [kind |-> "missing", records |-> {}]
  /\ artCall = [op |-> "none", ref |-> NoRef, ok |-> TRUE, accepted |-> FALSE,
                path |-> <<>>, records |-> {}, indexBefore |-> "missing",
                filesBefore |-> {}, count |-> 0]

ArtifactFrame == UNCHANGED <<orchestratorVars, fnVars, runnerVars, storeVars>>

\* write: the file is written, then the index is read, extended and replaced
ArtifactWrite ==
  /\ artCall.count < MaxArtifactCalls
  /\ \E phase \in PhaseInputs, name \in NameInputs :
       LET ref == [phase |-> phase, name |-> name]
           resolved == ResolveArtifactPath(ref)
           written == IF resolved.path = IndexFilePath
                      THEN [kind |-> "artifact", records |-> {}]
                      ELSE artIndex
           current == ReadIndexIfExists(written)
       IN IF ~resolved.ok
          THEN /\ artCall' = ArtifactCall("write", ref, FALSE, FALSE, <<>>, {},
                                          artCall.count + 1)
               /\ UNCHANGED <<artFiles, artIndex>>
          ELSE /\ artFiles' = IF resolved.path = IndexFilePath
                              THEN artFiles
                              ELSE artFiles \cup {resolved.path}
               /\ artIndex' = IF current.ok
                              THEN [kind |-> "valid",
                                    records |-> current.records \cup {resolved.path}]
                              ELSE written
               /\ artCall' = ArtifactCall("write", ref, current.ok, TRUE, resolved.path,
                                          {}, artCall.count + 1)
  /\ ArtifactFrame

\* read: readFile of the resolved path
ArtifactRead ==
  /\ artCall.count < MaxArtifactCalls
  /\ \E phase \in PhaseInputs, name \in NameInputs :
       LET ref == [phase |-> phase, name |-> name]
           resolved == ResolveArtifactPath(ref)
           exists == \/ resolved.path \in artFiles
                     \/ resolved.path = IndexFilePath /\ artIndex.kind # "missing"
       IN artCall' = ArtifactCall("read", ref, resolved.ok /\ exists, resolved.ok,
                                  resolved.path, {}, artCall.count + 1)
  /\ UNCHANGED <<artFiles, artIndex>>
  /\ ArtifactFrame

\* list without a phase filter: the index if it can be read, a scan if it is missing
ArtifactList ==
  /\ artCall.count < MaxArtifactCalls
  /\ LET current == ReadIndexIfExists(artIndex)
         records == IF ~current.ok THEN {}
                    ELSE IF current.found THEN current.records
                    ELSE ScanArtifacts(artFiles)
     IN artCall' = ArtifactCall("list", NoRef, current.ok, FALSE, <<>>, records,
                                artCall.count + 1)
  /\ UNCHANGED <<artFiles, artIndex>>
  /\ ArtifactFrame

\* the index file is deleted from outside
IndexLost ==
  /\ artIndex.kind # "missing"
  /\ artIndex' = [kind |-> "missing", records |-> {}]
  /\ UNCHANGED <<artFiles, artCall>>
  /\ ArtifactFrame

\* the index file is truncated, or replaced by JSON of another shape, from outside
IndexDamaged ==
  /\ artIndex.kind = "valid"
  /\ \E kind \in {"corrupt", "wrong_shape"} :
       artIndex' = [kind |-> kind, records |-> {}]
  /\ UNCHANGED <<artFiles, artCall>>
  /\ ArtifactFrame

ArtifactNext ==
  \/ ArtifactWrite
  \/ ArtifactRead
  \/ ArtifactList
  \/ IndexLost
  \/ IndexDamaged

ArtifactSpec == ArtifactInit /\ [][ArtifactNext]_vars

(***************************************************************************)
(* parseWorkflowYaml, from the top-level map and the phase entries that    *)
(* its line scanner has collected: every value is a string or is missing.  *)
(***************************************************************************)
MaxPhaseEntries == 2

DEFAULT_MAX_STEPS == 20

\* value?.trim(), undefined when nothing is left
OptionalValue(value) ==
  IF value = None THEN None
  ELSE IF Trim(value) = "" THEN None
  ELSE Trim(value)

\* Number.parseInt(value.trim(), 10): the digits a string starts with, NaN without any
ParseIntPrefix(raw) ==
  CASE raw = "0" -> [finite |-> TRUE, value |-> 0]
    [] raw = "3" -> [finite |-> TRUE, value |-> 3]
    [] raw = "2x" -> [finite |-> TRUE, value |-> 2]
    [] raw = "-1" -> [finite |-> TRUE, value |-> 0 - 1]
    [] OTHER -> [finite |-> FALSE, value |-> 0]

ParsePositiveIntegerMutNonNegative(raw) ==
  [ok |-> ParseIntPrefix(raw).finite /\ ParseIntPrefix(raw).value >= 0,
   value |-> ParseIntPrefix(raw).value]

ParsePositiveInteger(raw) ==
  [ok |-> ParseIntPrefix(raw).finite /\ ParseIntPrefix(raw).value > 0,
   value |-> ParseIntPrefix(raw).value]

ParseOptionalRunStatus(value) ==
  [ok |-> OptionalValue(value) \in VALID_RUN_STATUSES \cup {None},
   status |-> OptionalValue(value)]

NoPhase == [ok |-> FALSE]

\* phaseType !== 'llm' throws, once the approval type has been dealt with
IsLlmTypeMutAnyType(phaseType) == TRUE

IsLlmType(phaseType) == phaseType = "llm"

\* parsePhaseEntry: the phase an entry describes, or the refusal of the entry
ParsePhaseEntry(entry) ==
  LET id == OptionalValue(entry.id)
      phaseType == IF OptionalValue(entry.type) = None THEN "llm"
                   ELSE OptionalValue(entry.type)
      terminalStatus == ParseOptionalRunStatus(entry.terminal_status)
      decisionSourceRaw == OptionalValue(entry.decision_source)
  IN IF id = None \/ OptionalValue(entry.prompt_template) = None \/ ~terminalStatus.ok
     THEN NoPhase
     ELSE IF phaseType = "approval"
     THEN [ok |-> TRUE,
           phase |-> ApprovalPhase(id, OptionalValue(entry.next_on_approve),
                                   OptionalValue(entry.next_on_reject),
                                   terminalStatus.status)]
     ELSE IF ~IsLlmType(phaseType) \/ OptionalValue(entry.role) = None
             \/ decisionSourceRaw \notin {None, "output_tag"}
     THEN NoPhase
     ELSE [ok |-> TRUE,
           phase |-> LlmPhase(id, OptionalValue(entry.role), OptionalValue(entry.provider),
                              None, OptionalValue(entry.next), decisionSourceRaw,
                              OptionalValue(entry.next_on_pass),
                              OptionalValue(entry.next_on_fix),
                              OptionalValue(entry.next_on_ask), terminalStatus.status)]

NoWorkflow == [done |-> TRUE, ok |-> FALSE]

\* lines 116-153 of parseWorkflowYaml
ParseWorkflowYaml(doc) ==
  LET parsed == [i \in 1..Len(doc.phaseEntries) |-> ParsePhaseEntry(doc.phaseEntries[i])]
      phases == [i \in 1..Len(parsed) |-> parsed[i].phase]
      phaseIds == {phases[i].id : i \in 1..Len(phases)}
      givenEntry == OptionalValue(doc.entry_phase)
      entryPhase == IF givenEntry # None THEN givenEntry ELSE phases[1].id
      maxStepsRaw == doc.max_steps
      maxSteps == IF Truthy(maxStepsRaw)
                  THEN ParsePositiveInteger(Trim(maxStepsRaw))
                  ELSE [ok |-> TRUE, value |-> DEFAULT_MAX_STEPS]
  IN IF OptionalValue(doc.name) = None \/ Len(doc.phaseEntries) = 0 THEN NoWorkflow
     ELSE IF \E i \in 1..Len(parsed) : ~parsed[i].ok THEN NoWorkflow
     ELSE IF \E i, j \in 1..Len(phases) : i # j /\ phases[i].id = phases[j].id
     THEN NoWorkflow
     ELSE IF entryPhase \notin phaseIds THEN NoWorkflow
     ELSE IF ~maxSteps.ok THEN NoWorkflow
     ELSE IF \E i \in 1..Len(phases) : ~ValidatePhaseTransitions(phases[i], phaseIds)
     THEN NoWorkflow
     ELSE [done |-> TRUE, ok |-> TRUE,
           workflow |-> Workflow(entryPhase, maxSteps.value, phases)]

Entry(id, type, role, next, onFix, onApprove, onReject) ==
  [id |-> id, type |-> type, role |-> role, prompt_template |-> "do it",
   provider |-> None, terminal_status |-> None, decision_source |-> None,
   next |-> next, next_on_pass |-> None, next_on_fix |-> onFix, next_on_ask |-> None,
   next_on_approve |-> onApprove, next_on_reject |-> onReject,
   unknown_key |-> None]

\* entries with ids that repeat once trimmed, with transitions to phases that may
\* not exist, and entries parsePhaseEntry refuses
PhaseEntryInputs ==
  {Entry("p1", None, "planner", "p2", None, None, None),
   Entry("p1", None, "planner", "p9", None, None, None),
   [Entry("p1", None, "planner", None, None, "p9", None) EXCEPT !.unknown_key = "x"],
   Entry(" p1", "llm", "developer", " ", None, None, None),
   [Entry("p2", None, "evaluator", None, "p1", None, None)
      EXCEPT !.decision_source = "output_tag"],
   Entry("p2", None, "evaluator", None, "missing_phase", None, None),
   Entry(" p2 ", "approval", None, None, None, "p1", None),
   Entry("p2", "approval", None, None, None, None, "p9"),
   Entry("p3", "approval", None, "p9", None, "p1", "p3"),
   Entry("", None, "planner", None, None, None, None),
   Entry("p3", "shell", "planner", None, None, None, None),
   Entry("p3", None, " ", None, None, None, None),
   [Entry("p3", None, "reviewer", "p1", None, None, None)
      EXCEPT !.terminal_status = "done"]}

PhaseEntryLists ==
  UNION {[1..n -> PhaseEntryInputs] : n \in 0..MaxPhaseEntries}

WorkflowDocuments ==
  [name : {"wf", " "},
   unknown_key : {None, "x"},
   entry_phase : {None, "p1", " p2 ", "p9"},
   max_steps : {None, "", "0", "3", "2x", "-1", "many"},
   phaseEntries : PhaseEntryLists]

ParserInit ==
  /\ OrchestratorAtRest
  /\ RunnerAtRest
  /\ StoreAtRest
  /\ ArtifactAtRest
  /\ fnArgs \in WorkflowDocuments
  /\ fnResult = NotApplied

ParseWorkflow ==
  /\ ~fnResult.done
  /\ fnResult' = ParseWorkflowYaml(fnArgs)
  /\ UNCHANGED <<fnArgs, orchestratorVars, runnerVars, storeVars, artifactVars>>

ParserNext == ParseWorkflow

ParserSpec == ParserInit /\ [][ParserNext]_vars

(***************************************************************************)
(* extractPatchFromText on the lines of a provider text: the fences, the   *)
(* ### headings and the [PATCH_BEGIN]/[PATCH_END] markers are lines of     *)
(* their own, the other lines are lines of a patch.  No line is blank.     *)
(***************************************************************************)
MaxTextLines == 5

Marker(kind) == [kind |-> kind, a |-> RawPath(FALSE, <<>>), b |-> RawPath(FALSE, <<>>)]

FenceKinds == {"fence_diff", "fence_patch", "fence"}

\* match[1].trim().toLowerCase().split(/\s+/)[0] of the opening fence
FenceLanguage(kind) ==
  IF kind = "fence_diff" THEN "diff" ELSE IF kind = "fence_patch" THEN "patch" ELSE ""

\* NEXT_SECTION_PATTERN /^###\s+\S/ matches the line; it matches "### PATCH" too
NextSectionLine(line) == line.kind \in {"h_patch", "h3"}

SetMin(S) == CHOOSE x \in S : \A y \in S : x <= y

\* the matches of FENCED_BLOCK_PATTERN in turn: a fence opens a block, the next
\* fence closes it, and the search goes on behind the closing fence
RECURSIVE FindFencedBlockFrom(_, _, _)
FindFencedBlockFrom(text, language, from) ==
  LET openers == {i \in from..Len(text) : text[i].kind \in FenceKinds}
  IN IF openers = {} THEN NoBlock
     ELSE LET o == SetMin(openers)
              closers == {i \in (o + 1)..Len(text) : text[i].kind \in FenceKinds}
          IN IF closers = {} THEN NoBlock
             ELSE IF FenceLanguage(text[o].kind) = language
             THEN Block(SubSeq(text, o + 1, SetMin(closers) - 1))
             ELSE FindFencedBlockFrom(text, language, SetMin(closers) + 1)

FindFencedBlock(text, language) == FindFencedBlockFrom(text, language, 1)

\* the lines behind the first ### PATCH heading up to the next ### heading
FindPatchSection(text) ==
  LET starts == {i \in 1..Len(text) : text[i].kind = "h_patch"}
  IN IF starts = {} THEN NoBlock
     ELSE LET sectionStart == SetMin(starts)
              stops == {i \in (sectionStart + 1)..Len(text) : NextSectionLine(text[i])}
              last == IF stops = {} THEN Len(text) ELSE SetMin(stops) - 1
          IN Block(SubSeq(text, sectionStart + 1, last))

\* if (diffBlock), if (patchBlock), if (section), if (marked?.[1]): null and the
\* empty string are both falsy
Falsy(block) == ~block.found \/ block.lines = <<>>

\* the capture of /\[PATCH_BEGIN\]\s*([\s\S]*?)\s*\[PATCH_END\]/
MarkedPayload(lines) ==
  LET begins == {i \in 1..Len(lines) :
                   /\ lines[i].kind = "begin"
                   /\ \E j \in (i + 1)..Len(lines) : lines[j].kind = "end"}
  IN IF begins = {} THEN NoBlock
     ELSE LET b == SetMin(begins)
              e == SetMin({j \in (b + 1)..Len(lines) : lines[j].kind = "end"})
          IN Block(SubSeq(lines, b + 1, e - 1))

NormalizePatchText(lines) ==
  IF ~Falsy(MarkedPayload(lines)) THEN MarkedPayload(lines).lines ELSE lines

ExtractedFrom(source, extraction) ==
  [ok |-> extraction.ok, reason |-> extraction.reason, patch |-> extraction.patch,
   source |-> IF extraction.ok THEN source ELSE None]

\* finalizePatch(rawPatch, source)
FinalizePatchOf(rawPatch, source) ==
  ExtractedFrom(source, FinalizePatch(NormalizePatchText(rawPatch)))

ExtractPatchFromLines(text) ==
  IF text = <<>> THEN ExtractedFrom(None, ExtractionError("not_found"))
  ELSE IF ~Falsy(FindFencedBlock(text, "diff"))
  THEN FinalizePatchOf(FindFencedBlock(text, "diff").lines, "diff_code_block")
  ELSE IF ~Falsy(FindFencedBlock(text, "patch"))
  THEN FinalizePatchOf(FindFencedBlock(text, "patch").lines, "patch_code_block")
  ELSE IF ~Falsy(FindPatchSection(text))
  THEN FinalizePatchOf(FindPatchSection(text).lines, "patch_section")
  ELSE ExtractedFrom(None, ExtractionError("not_found"))

TextLineInputs ==
  {Marker("fence_diff"), Marker("fence_patch"), Marker("fence"), Marker("h_patch"),
   Marker("h3"), Marker("begin"), Marker("end"),
   GitLine(Prefixed("a", SafeSegs), Prefixed("b", SafeSegs)),
   OldLine(Prefixed("a", SafeSegs)),
   NewLine(Prefixed("b", SafeSegs)),
   HunkLine}

ProviderTextLines == UNION {[1..n -> TextLineInputs] : n \in 0..MaxTextLines}

ExtractInit ==
  /\ OrchestratorAtRest
  /\ RunnerAtRest
  /\ StoreAtRest
  /\ ArtifactAtRest
  /\ fnArgs \in ProviderTextLines
  /\ fnResult = NotApplied

ExtractFromLines ==
  /\ ~fnResult.done
  /\ fnResult' = [done |-> TRUE, extraction |-> ExtractPatchFromLines(fnArgs)]
  /\ UNCHANGED <<fnArgs, orchestratorVars, runnerVars, storeVars, artifactVars>>

ExtractNext == ExtractFromLines

ExtractSpec == ExtractInit /\ [][ExtractNext]_vars

(***************************************************************************)
(* The promise of CommandRunner.run for one call: the child process, its   *)
(* error and close events, its output, the timeout timer and the grace     *)
(* timer.  A timer becomes due when its delay has passed and its callback  *)
(* runs later, unless it was cleared in between.                           *)
(***************************************************************************)
MaxChunks == 2

ExitCodes == {0, 1}

\* the exit code of a child that was killed by a signal, or never started, is null
NullExitCodes == {-1}

\* if (!settled) in the grace timer
GraceKillNeededMutAlways(settled) == TRUE

GraceKillNeeded(settled) == ~settled

\* spawn returned a child: started, or failed to start (error, then close, follow)
NewChild(started) ==
  [proc |-> IF started THEN "running" ELSE "none",
   stdout |-> 0, stderr |-> 0, timedOut |-> FALSE, settled |-> FALSE, settles |-> 0,
   outcome |-> "pending", result |-> NoResult,
   timer |-> "armed", grace |-> "none", signals |-> <<>>,
   errorSeen |-> FALSE, closeSeen |-> FALSE]

TimeoutInit ==
  /\ OrchestratorAtRest
  /\ FnAtRest
  /\ StoreAtRest
  /\ ArtifactAtRest
  /\ runnerCalls = None
  /\ runnerLog = None
  /\ runnerProcs = None
  /\ child \in {NewChild(started) : started \in BOOLEAN}

TimeoutFrame ==
  UNCHANGED <<orchestratorVars, fnVars, storeVars, artifactVars,
              runnerCalls, runnerLog, runnerProcs>>

\* clearTimeout(timer): a timer whose callback has not run will not run
ClearTimeout(timer) == IF timer \in {"armed", "due"} THEN "cleared" ELSE timer

\* lines 101-103: child.stdout.on('data')
StdoutData ==
  /\ child.proc = "running"
  /\ ~child.closeSeen
  /\ child.stdout < MaxChunks
  /\ child' = [child EXCEPT !.stdout = @ + 1]
  /\ TimeoutFrame

\* lines 104-106: child.stderr.on('data')
StderrData ==
  /\ child.proc = "running"
  /\ ~child.closeSeen
  /\ child.stderr < MaxChunks
  /\ child' = [child EXCEPT !.stderr = @ + 1]
  /\ TimeoutFrame

\* the delay timeoutMs has passed
TimeoutElapses ==
  /\ child.timer = "armed"
  /\ child' = [child EXCEPT !.timer = "due"]
  /\ TimeoutFrame

\* lines 108-111 and 112: the callback of the timeout timer
TimerFires ==
  /\ child.timer = "due"
  /\ child' = [child EXCEPT !.timer = "fired", !.timedOut = TRUE,
                            !.signals = Append(@, "SIGTERM"), !.grace = "armed"]
  /\ TimeoutFrame

\* KILL_GRACE_MS have passed since the timeout callback
GraceElapses ==
  /\ child.grace = "armed"
  /\ child' = [child EXCEPT !.grace = "due"]
  /\ TimeoutFrame

\* lines 112-116: the callback of the grace timer
GraceFires ==
  /\ child.grace = "due"
  /\ child' = [child EXCEPT !.grace = "fired",
                            !.signals = IF GraceKillNeeded(child.settled)
                                        THEN Append(@, "SIGKILL") ELSE @]
  /\ TimeoutFrame

\* lines 119-134: child.on('error'); the child failed to start, or a kill failed
ChildError ==
  /\ ~child.errorSeen
  /\ ~child.closeSeen
  /\ child.proc = "none" \/ child.signals # <<>>
  /\ child' = IF child.settled
              THEN [child EXCEPT !.errorSeen = TRUE]
              ELSE [child EXCEPT !.errorSeen = TRUE, !.settled = TRUE,
                                 !.timer = ClearTimeout(@), !.settles = @ + 1,
                                 !.outcome = "SPAWN_FAILED"]
  /\ TimeoutFrame

\* lines 136-153: child.on('close'); after the error when the child failed to start
ChildClose ==
  /\ ~child.closeSeen
  /\ child.proc = "none" => child.errorSeen
  /\ \E exitCode \in IF child.proc = "none" THEN NullExitCodes
                       ELSE IF child.signals # <<>> THEN ExitCodes \cup NullExitCodes
                       ELSE ExitCodes :
       child' = IF child.settled
                THEN [child EXCEPT !.closeSeen = TRUE,
                                   !.proc = IF @ = "running" THEN "closed" ELSE @]
                ELSE [child EXCEPT !.closeSeen = TRUE, !.proc = "closed",
                                   !.settled = TRUE, !.timer = ClearTimeout(@),
                                   !.settles = @ + 1, !.outcome = "resolved",
                                   !.result = [exitCode |-> exitCode,
                                               stdout |-> child.stdout,
                                               stderr |-> child.stderr,
                                               timedOut |-> child.timedOut]]
  /\ TimeoutFrame

TimeoutNext ==
  \/ StdoutData
  \/ StderrData
  \/ TimeoutElapses
  \/ TimerFires
  \/ GraceElapses
  \/ GraceFires
  \/ ChildError
  \/ ChildClose

TimeoutSpec == TimeoutInit /\ [][TimeoutNext]_vars

(***************************************************************************)
(* The auto-fix feedback: handleGatekeeperAfterPatch decides on the check  *)
(* results, run appends the feedback to the phase output and stores it in  *)
(* the render context, and the prompts of the next phase are rendered from *)
(* that context.  A text is the sequence of its parts.                     *)
(***************************************************************************)
FeedbackLimit == 320

\* the ids handed to runChecks, in order
FeedbackCheckIds == <<"build", "test", "lint">>

\* stderr of a check: its length, and its length once trimmed
StderrInputs ==
  {[length |-> 0, trimmed |-> 0],
   [length |-> 2, trimmed |-> 0],
   [length |-> FeedbackLimit + 2, trimmed |-> FeedbackLimit],
   [length |-> FeedbackLimit + 1, trimmed |-> FeedbackLimit + 1]}

\* truncateForFeedback(value, limit = 320)
TruncateForFeedback(value, limit) ==
  IF value.trimmed = 0 THEN [kept |-> 0, text |-> "(empty)"]
  ELSE IF value.trimmed <= limit THEN [kept |-> value.trimmed, text |-> "trimmed"]
  ELSE [kept |-> limit, text |-> "...[truncated]"]

\* a part of a text that is not a feedback
Words(words) == [words |-> words]

\* ${result.exitCode ?? 'null'}
ExitCodeText(exitCode) ==
  IF exitCode = -1 THEN [digits |-> <<>>, text |-> "null"]
  ELSE [digits |-> DecimalDigits(exitCode), text |-> "number"]

\* the four lines of a failed result
FeedbackLine(result) ==
  [commandId |-> result.commandId,
   exitCode |-> ExitCodeText(result.exitCode),
   timedOut |-> IF result.timedOut THEN "yes" ELSE "no",
   stderr |-> TruncateForFeedback(result.stderr, FeedbackLimit)]

\* a feedback that lists every result
CreateAutoFixFeedbackMutAllResults(results, retryCount, evaluateId) ==
  [retryCount |-> retryCount,
   target |-> IF Truthy(evaluateId) THEN evaluateId ELSE "evaluate phase",
   lines |-> [i \in DOMAIN results |-> FeedbackLine(results[i])]]

CreateAutoFixFeedback(results, retryCount, evaluateId) ==
  [retryCount |-> retryCount,
   target |-> IF Truthy(evaluateId) THEN evaluateId ELSE "evaluate phase",
   lines |-> LET failedResults ==
                   SelectSeq(results, LAMBDA r : r.timedOut \/ r.exitCode # 0)
             IN [i \in DOMAIN failedResults |-> FeedbackLine(failedResults[i])]]

CheckResultOf(i, exitCode, timedOut, stderr) ==
  [commandId |-> FeedbackCheckIds[i], exitCode |-> exitCode, timedOut |-> timedOut,
   stderr |-> stderr]

CheckResultLists ==
  UNION {{[i \in 1..n |-> CheckResultOf(i, f[i][1], f[i][2], f[i][3])] :
            f \in [1..n -> {0, 1, -1} \X BOOLEAN \X StderrInputs]} :
         n \in 1..MaxChecks}

\* the context of a patch-first phase "p1" whose checks have run: the evaluator "p3",
\* when the workflow has one, may have an output of its own from before
FeedbackInputs ==
  [checkResults : CheckResultLists,
   retries : 0..MaxRetriesBound,
   evaluatePhaseId : {None, "p3"},
   evaluatorRan : BOOLEAN]

FeedbackInit ==
  /\ OrchestratorAtRest
  /\ RunnerAtRest
  /\ StoreAtRest
  /\ ArtifactAtRest
  /\ fnArgs \in {a \in FeedbackInputs : a.evaluatorRan => a.evaluatePhaseId # None}
  /\ fnResult = [pc |-> "checks", decision |-> None, evaluatorFeedback |-> None,
                 outputs |-> [id \in PhaseIds |->
                                IF id = "p3" /\ fnArgs.evaluatorRan
                                THEN <<Words("[DECISION] fix")>> ELSE None],
                 latestOutput |-> IF fnArgs.evaluatorRan THEN <<Words("[DECISION] fix")>> ELSE <<>>,
                 rendered |-> None]

FeedbackFrame == UNCHANGED <<fnArgs, orchestratorVars, runnerVars, storeVars, artifactVars>>

\* handleGatekeeperAfterPatch from the check decision on, then run up to the point
\* where the output of the phase is stored
GatekeeperSettles ==
  /\ fnResult.pc = "checks"
  /\ LET decision == DecideCheckFailure(fnArgs.checkResults, fnArgs.retries,
                                        DEFAULT_MAX_AUTO_FIX_RETRIES)
         feedback == CreateAutoFixFeedback(fnArgs.checkResults, fnArgs.retries + 1,
                                           fnArgs.evaluatePhaseId)
         phaseOutputText == IF decision = "auto_fix" THEN <<Words("PATCH"), feedback>>
                            ELSE <<Words("PATCH")>>
         outputs1 == IF decision = "auto_fix" /\ Truthy(fnArgs.evaluatePhaseId)
                     THEN [fnResult.outputs EXCEPT ![fnArgs.evaluatePhaseId] = <<feedback>>]
                     ELSE fnResult.outputs
     IN IF decision = "fail"
        THEN fnResult' = [fnResult EXCEPT !.pc = "thrown", !.decision = decision]
        ELSE fnResult' = [fnResult EXCEPT
                            !.pc = "completed",
                            !.decision = decision,
                            !.evaluatorFeedback =
                               IF decision = "auto_fix" THEN feedback ELSE None,
                            !.outputs = [outputs1 EXCEPT !["p1"] = phaseOutputText],
                            !.latestOutput = phaseOutputText]
  /\ FeedbackFrame

\* resolveTemplateKey for {{latest_output}} and {{phase.<evaluator>.output}}
ResolveTemplateKey(key, context) ==
  IF key = "latest_output" THEN context.latestOutput
  ELSE context.outputs[key]

\* the prompts of the next phase are rendered
RenderPrompts ==
  /\ fnResult.pc = "completed"
  /\ fnResult' = [fnResult EXCEPT
                    !.pc = "rendered",
                    !.rendered =
                       [latest_output |-> ResolveTemplateKey("latest_output", fnResult),
                        evaluator_output |->
                          IF Truthy(fnArgs.evaluatePhaseId)
                          THEN ResolveTemplateKey(fnArgs.evaluatePhaseId, fnResult)
                          ELSE None]]
  /\ FeedbackFrame

FeedbackNext == GatekeeperSettles \/ RenderPrompts

FeedbackSpec == FeedbackInit /\ [][FeedbackNext]_vars

(***************************************************************************)
(* Properties.                                                             *)
(***************************************************************************)
Stopped == pc \in {"exit", "done"}

Persisted == disk = NormalizeRunState(state)

NoCallSinceBreak == calls = atBreak.calls /\ applied = atBreak.applied

Last(seq) == seq[Len(seq)]

RECURSIVE CountOf(_, _)
CountOf(seq, x) ==
  IF seq = <<>> THEN 0
  ELSE CountOf(SubSeq(seq, 1, Len(seq) - 1), x) + (IF Last(seq) = x THEN 1 ELSE 0)

\* C1: run starts at most maxSteps phase executions, LLM and approval alike, for
\* every accepted workflow; when a phase is due after maxSteps executions the run
\* leaves the loop with status failed, persisted, and no provider, approval or
\* command call is made from then on.
C1_MaxStepsCeiling ==
  /\ [](/\ iteration <= workflow.maxSteps
        /\ calls.provider <= workflow.maxSteps
        /\ Len(executedPhases) <= workflow.maxSteps)
  /\ [][(pc = "loop" /\ iteration >= workflow.maxSteps) =>
          /\ pc' = "exit"
          /\ state'.status = "failed"
          /\ disk' = NormalizeRunState(state')
          /\ disk'.status = "failed"
          /\ calls' = calls]_vars
  /\ [][Stopped => (Stopped' /\ calls' = calls /\ applied' = applied)]_vars

\* the loop was left because a phase was due after maxSteps executions, in a cycle
C1_Witness ==
  /\ pc = "done"
  /\ iteration = workflow.maxSteps
  /\ Len(executedPhases) = workflow.maxSteps
  /\ workflow.maxSteps >= 2
  /\ executedPhases[1] = currentPhaseId
  /\ state.status = "failed"
  /\ failure = NoFailure
  /\ state.current_phase = currentPhaseId

ExpectedDecision(k) == IF k <= maxAutoFixRetries THEN "auto_fix" ELSE "fail"

\* the checks failed in every verification of the run so far
EveryVerificationFailed == decisions # <<>> /\ CountOf(decisions, "pass") = 0

\* C3 as stated: when the checks fail after every patch-first phase of a run, the
\* decisions of the run are exactly maxAutoFixRetries times auto_fix followed by
\* one fail, and the fail ends the run failed.
C3_ExactlyNAutoFixThenFail ==
  (pc = "done" /\ EveryVerificationFailed) =>
    /\ Len(decisions) = maxAutoFixRetries + 1
    /\ \A k \in 1..Len(decisions) : decisions[k] = ExpectedDecision(k)
    /\ state.status = "failed"

\* C3 amended: when the checks fail in every verification of a run, the k-th
\* decision is auto_fix for k <= maxAutoFixRetries and fail for
\* k = maxAutoFixRetries + 1, nothing follows the fail, and the fail ends the run
\* failed; the run may end before the fail decision is reached.
C3_AutoFixPrefixThenFail ==
  EveryVerificationFailed =>
    /\ Len(decisions) <= maxAutoFixRetries + 1
    /\ \A k \in 1..Len(decisions) : decisions[k] = ExpectedDecision(k)
    /\ Last(decisions) = "fail" =>
         /\ Stopped
         /\ state.status = "failed"
         /\ Persisted
         /\ failure.message = "checks failed, retries exhausted"

C3_Witness ==
  /\ pc = "done"
  /\ maxAutoFixRetries = 2
  /\ decisions = <<"auto_fix", "auto_fix", "fail">>
  /\ state.status = "failed"

\* C4: retries is an integer in 0..maxAutoFixRetries in every state of a run, it
\* never decreases, it changes only by +1 and only in the step that takes an
\* auto_fix decision, and it equals the number of auto_fix decisions taken.
C4_RetriesCounter ==
  /\ [](/\ state.retries \in 0..maxAutoFixRetries
        /\ disk.retries \in 0..maxAutoFixRetries
        /\ state.retries = CountOf(decisions, "auto_fix")
        /\ (pc = "done" => disk.retries = CountOf(decisions, "auto_fix")))
  /\ [][\/ state'.retries = state.retries
        \/ /\ state'.retries = state.retries + 1
           /\ pc = "checks"
           /\ decisions' = Append(decisions, "auto_fix")]_vars

\* a check that fails once and passes on the retry: retries = 1, run completed
C4_Witness ==
  /\ pc = "done"
  /\ maxAutoFixRetries = 2
  /\ decisions = <<"auto_fix", "pass">>
  /\ state.retries = 1
  /\ state.status = "completed"

\* the phase an auto_fix decision redirects to
DesignatedFixer(failing) == IF fixPhaseId # None THEN fixPhaseId ELSE failing

\* C5 as stated: the phase executed after an auto_fix decision is the designated
\* fixer phase of the workflow, and it is not the phase whose checks failed.
C5_NextIsFixerNotFailingPhase ==
  autoFixTo # None => (autoFixTo = fixPhaseId /\ autoFixTo # autoFixFrom)

\* C5 amended: after an auto_fix decision in a phase without terminalStatus the
\* next phase due is the designated fixer phase, or the failing phase itself when
\* the workflow has no fixer phase, whatever the failing phase's own transition;
\* it is the phase executed next unless maxSteps is exhausted.  A failing phase
\* with a terminalStatus ends the run with that status instead.
C5_AutoFixRedirect ==
  /\ autoFixTo # None => autoFixTo = DesignatedFixer(autoFixFrom)
  /\ (autoFixFrom # None /\ autoFixTo = None) =>
       IF PhaseOf(workflow, autoFixFrom).terminalStatus # None
       THEN Stopped /\ state.status = PhaseOf(workflow, autoFixFrom).terminalStatus
       ELSE /\ currentPhaseId = DesignatedFixer(autoFixFrom)
            /\ state.current_phase = DesignatedFixer(autoFixFrom)
            /\ \/ pc = "loop" /\ state.status = "running"
               \/ Stopped /\ state.status = "failed" /\ iteration = workflow.maxSteps

\* the redirect goes to a fixer phase that is not the successor the failing phase names
C5_Witness ==
  /\ autoFixTo # None
  /\ autoFixTo = fixPhaseId
  /\ autoFixTo # autoFixFrom
  /\ PhaseOf(workflow, autoFixFrom).next \notin {None, autoFixTo}
  /\ pc = "provider"

\* C6: a rejected Gatekeeper risk approval ends the run canceled with
\* current_phase null, persisted; no check command runs and no phase, provider
\* call or approval call follows.
C6_RejectionCancels ==
  gkApproval = "rejected" =>
    /\ Stopped
    /\ state.status = "canceled"
    /\ state.current_phase = None
    /\ Persisted
    /\ disk.status = "canceled"
    /\ disk.current_phase = None
    /\ checkResults = <<>>
    /\ NoCallSinceBreak
    /\ Last(executedPhases) = currentPhaseId

C6_Witness ==
  /\ pc = "done"
  /\ gkApproval = "rejected"
  /\ options.checkCommandIds # <<>>
  /\ decisions = <<>>

\* C7: while the Gatekeeper's approval request for a phase is pending, and after
\* it is rejected, the patch of that phase has not been applied to the workspace.
C7_NoApplyBeforeApproval ==
  gkApproval \in {"pending", "rejected"} => iteration \notin applied

\* C8: while the approval handler is awaited, in an approval phase or for a
\* Gatekeeper risk approval, the snapshot on disk has status awaiting_approval
\* and current_phase the asking phase; once a Gatekeeper approval is granted,
\* status running is on disk before the first check command starts.
C8_AwaitingApprovalPersisted ==
  /\ pc \in {"approval", "gk_approval"} =>
       /\ disk.status = "awaiting_approval"
       /\ disk.current_phase = currentPhaseId
       /\ disk.phases[currentPhaseId].status = "running"
  /\ (pc = "checks" /\ gkApproval = "granted") =>
       /\ disk.status = "running"
       /\ disk.current_phase = currentPhaseId

\* the first check command runs after a granted Gatekeeper approval
C8_Witness ==
  /\ pc = "checks"
  /\ gkApproval = "granted"
  /\ checkResults = <<>>

EndStatuses == {"completed", "failed", "canceled", "awaiting_input"}

\* C9 as stated: a run that ends completed, failed, canceled or awaiting_input
\* has current_phase null in the persisted RunState.
C9_TerminalCurrentPhaseNull ==
  (pc = "done" /\ state.status \in EndStatuses) =>
    (Persisted /\ disk.current_phase = None)

\* C9 amended: a run that ends completed, canceled or awaiting_input, or failed
\* through a terminalStatus, has current_phase null in the persisted RunState; a
\* run that ends failed through an exception has current_phase the phase that
\* threw, and one that ends failed through maxSteps the phase that was due.
C9_TerminalCurrentPhase ==
  (pc = "done" /\ state.status \in EndStatuses) =>
    /\ Persisted
    /\ disk.status \in {"completed", "canceled", "awaiting_input"} =>
         disk.current_phase = None
    /\ disk.status = "failed" =>
         disk.current_phase =
           IF failure.phase # None THEN failure.phase
           ELSE IF /\ executedPhases # <<>>
                   /\ PhaseOf(workflow, Last(executedPhases)).terminalStatus = "failed"
                THEN None
                ELSE currentPhaseId

C9_Witness ==
  /\ pc = "done"
  /\ disk.status = "failed"
  /\ failure.phase # None
  /\ disk.current_phase = failure.phase

\* C10: a completed approval phase with a terminalStatus ends the run with that
\* status whatever the answer; otherwise the next phase is nextOnApprove when
\* approved and nextOnReject when rejected, and without such a target the run
\* ends completed (approved) or canceled (rejected), after which no provider is
\* invoked and no patch is applied.
C10_ApprovalOutcome ==
  approvalDecision # None =>
    LET ph == PhaseOf(workflow, Last(executedPhases))
        approved == approvalDecision = "approved"
        target == IF approved THEN ph.nextOnApprove ELSE ph.nextOnReject
    IN /\ ph.type = "approval"
       /\ IF ph.terminalStatus # None
          THEN Stopped /\ state.status = ph.terminalStatus /\ NoCallSinceBreak
          ELSE IF target = None
          THEN /\ Stopped
               /\ state.status = (IF approved THEN "completed" ELSE "canceled")
               /\ Persisted
               /\ NoCallSinceBreak
          ELSE /\ currentPhaseId = target
               /\ state.current_phase = target
               /\ \/ pc = "loop" /\ state.status = "running"
                  \/ Stopped /\ state.status = "failed" /\ iteration = workflow.maxSteps

\* a rejection without reject route: canceled, nothing applied, no provider called
C10_Witness ==
  /\ pc = "done"
  /\ approvalDecision = "rejected"
  /\ PhaseOf(workflow, Last(executedPhases)).nextOnReject = None
  /\ PhaseOf(workflow, Last(executedPhases)).terminalStatus = None
  /\ state.status = "canceled"
  /\ calls.provider = 0
  /\ applied = {}

\* the tokens of a text that satisfy a test
Has(text, Test(_)) == \E i \in 1..Len(text.tokens) : Test(text.tokens[i])

IsExplicitTag(token) == ExplicitTag(token) # None

\* the decision named by the first explicit tag of a text that has one
FirstTag(text) ==
  ExplicitTag(text.tokens[CHOOSE i \in 1..Len(text.tokens) :
                            /\ IsExplicitTag(text.tokens[i])
                            /\ \A j \in 1..(i - 1) : ~IsExplicitTag(text.tokens[j])])

\* C11 as stated: the decision is the one named by an explicit DECISION tag when
\* the text has one, whatever bracket markers are present; otherwise ask if [ASK]
\* is present, fix if [FIX] or [FAIL] is present; a text with neither an explicit
\* tag nor a bracket marker yields pass.
C11_TagThenBracketsThenPass ==
  fnResult.done =>
    fnResult.decision = IF Has(fnArgs, IsExplicitTag) THEN FirstTag(fnArgs)
                        ELSE IF Has(fnArgs, BracketAsk) THEN "ask"
                        ELSE IF Has(fnArgs, BracketFix) \/ Has(fnArgs, BracketFail) THEN "fix"
                        ELSE "pass"

\* C11 amended: the decision is the one named by the first explicit DECISION tag
\* when the text has one, whatever markers are present; otherwise ask if [ASK] or
\* the whole word ASK is present (any letter case), otherwise fix if [FIX], [FAIL]
\* or the whole word FIX is present; only a text with no tag, no bracket marker and
\* neither of the two words yields pass.
C11_TagThenMarkersThenPass ==
  fnResult.done =>
    fnResult.decision = IF Has(fnArgs, IsExplicitTag) THEN FirstTag(fnArgs)
                        ELSE IF Has(fnArgs, BracketAsk) \/ Has(fnArgs, WordAsk) THEN "ask"
                        ELSE IF \/ Has(fnArgs, BracketFix)
                                \/ Has(fnArgs, BracketFail)
                                \/ Has(fnArgs, WordFix) THEN "fix"
                        ELSE "pass"

\* an explicit tag wins over a bracket marker that precedes it
C11_Witness ==
  /\ fnArgs.tokens = <<"[ASK]", "decision: fix">>
  /\ fnResult.done
  /\ fnResult.decision = "fix"


\* the target C12 names for a phase and the decision read from its output
DecisionTarget(ph, decision) ==
  IF ph.decisionSource # "output_tag" THEN ph.next
  ELSE IF decision = "pass" THEN (IF ph.nextOnPass # None THEN ph.nextOnPass ELSE ph.next)
  ELSE IF decision = "fix" THEN (IF ph.nextOnFix # None THEN ph.nextOnFix ELSE ph.next)
  ELSE (IF ph.nextOnAsk # None THEN ph.nextOnAsk ELSE ph.next)

\* C12: an LLM phase without terminalStatus that completes without a Gatekeeper
\* override hands over to nextOnPass, nextOnFix or nextOnAsk according to the
\* decision read from its output when its decisionSource is output_tag, to next
\* when that field is absent, and to next when it has no decisionSource; when
\* the target is absent the run ends completed.
C12_NextPhaseResolution ==
  (lastDecision \in Decisions \cup {"untagged"}) =>
    LET ph == PhaseOf(workflow, Last(executedPhases))
        target == DecisionTarget(ph, lastDecision)
    IN /\ ph.type = "llm"
       /\ (lastDecision = "untagged") <=> (ph.decisionSource # "output_tag")
       /\ ph.terminalStatus = None =>
            IF target = None
            THEN /\ Stopped
                 /\ state.status = "completed"
                 /\ state.current_phase = None
                 /\ Persisted
            ELSE /\ currentPhaseId = target
                 /\ state.current_phase = target
                 /\ \/ pc = "loop" /\ state.status = "running"
                    \/ Stopped /\ state.status = "failed" /\ iteration = workflow.maxSteps

\* the decision is ask, the phase has no nextOnAsk, the run goes on with next
C12_Witness ==
  /\ lastDecision = "ask"
  /\ PhaseOf(workflow, Last(executedPhases)).nextOnAsk = None
  /\ PhaseOf(workflow, Last(executedPhases)).nextOnFix # None
  /\ PhaseOf(workflow, Last(executedPhases)).next = "p2"
  /\ currentPhaseId = "p2"
  /\ pc = "loop"


ExtractionReasons == {"not_found", "invalid_format", "path_violation"}

UnsafeHeaderPath(segs) ==
  /\ segs # <<>>
  /\ segs # DevNull
  /\ segs[1] = "" \/ \E i \in 1..Len(segs) : segs[i] = ".."

\* a diff --git, --- or +++ line of the patch names such a path
HasUnsafeHeaderPath(lines) ==
  \E i \in 1..Len(lines) :
    /\ lines[i].kind \in {"git", "old", "new"}
    /\ UnsafeHeaderPath(lines[i].a.segs) \/ UnsafeHeaderPath(lines[i].b.segs)

\* C14: extraction fails whenever a header path of the patch (in a diff --git,
\* --- or +++ line) is absolute or has a .. segment, so no patch returned by
\* extraction and no patch handed to git apply has such a header path.
C14_NoUnsafeHeaderPathExtracted ==
  fnResult.done =>
    /\ fnResult.extraction.ok => ~HasUnsafeHeaderPath(fnResult.extraction.patch)
    /\ fnResult.gitApply = "called" => ~HasUnsafeHeaderPath(fnResult.extraction.patch)


\* the log entries of a call
EntriesOf(c) == {i \in 1..Len(runnerLog) : runnerLog[i].call = c}

\* the id of a call is not in the allowlist
NotAllowed(c) == Trim(runnerCalls[c].commandId) \notin AllowedCommandIds

\* C15 as stated: run called with any id that is not in the allowlist spawns no
\* process, appends a rejected entry for that id to the log and only then raises
\* NOT_ALLOWED.
C15_NotAllowedLoggedThenRaised ==
  \A c \in RunnerCallIds :
    NotAllowed(c) =>
      /\ c \notin runnerProcs
      /\ runnerCalls[c].pc = "settled" =>
           /\ runnerCalls[c].outcome = "NOT_ALLOWED"
           /\ \E i \in EntriesOf(c) : runnerLog[i].event = "rejected"

\* C15 amended: run called with a non-blank id that is not in the allowlist
\* spawns no process and writes a rejected entry for the trimmed id; when the
\* write succeeded it then raises NOT_ALLOWED, when the write failed it raises
\* the error of the write.  Called with a blank id it raises a plain Error before
\* the lookup: no process, no log entry.
C15_RejectionOfUnknownId ==
  \A c \in RunnerCallIds :
    NotAllowed(c) =>
      /\ c \notin runnerProcs
      /\ \A i \in EntriesOf(c) :
           /\ runnerLog[i].event = "rejected"
           /\ runnerLog[i].commandId = Trim(runnerCalls[c].commandId)
      /\ Cardinality(EntriesOf(c)) <= 1
      /\ runnerCalls[c].pc = "settled" =>
           IF BlankCommandId(runnerCalls[c].commandId)
           THEN runnerCalls[c].outcome = "EMPTY_ID" /\ EntriesOf(c) = {}
           ELSE \/ runnerCalls[c].outcome = "NOT_ALLOWED" /\ EntriesOf(c) # {}
                \/ runnerCalls[c].outcome = "LOG_ERROR" /\ EntriesOf(c) = {}
      /\ runnerCalls[c].outcome = "NOT_ALLOWED" => runnerCalls[c].pc = "settled"

\* both calls were refused and logged, no process was spawned
C15_Witness ==
  /\ \A c \in RunnerCallIds :
       /\ runnerCalls[c].commandId = "rm-rf"
       /\ runnerCalls[c].outcome = "NOT_ALLOWED"
  /\ Len(runnerLog) = MaxRunnerCalls
  /\ runnerProcs = {}

\* the event C16 names for a settled call
EventOfOutcome(c) ==
  CASE runnerCalls[c].outcome = "NOT_ALLOWED" -> "rejected"
    [] runnerCalls[c].outcome = "SPAWN_FAILED" -> "spawn_failed"
    [] OTHER -> "completed"

\* C16 as stated: every call of run appends exactly one entry to the log before
\* it settles, rejected, spawn_failed or completed as the case may be; no call
\* settles without a log entry.
C16_OneEntryPerCall ==
  \A c \in RunnerCallIds :
    /\ Cardinality(EntriesOf(c)) <= 1
    /\ runnerCalls[c].pc = "settled" => Cardinality(EntriesOf(c)) = 1

\* C16 amended: a call of run with a non-blank id whose log write succeeds
\* appends exactly one entry before it settles: rejected when the id is not
\* allowed, spawn_failed when the process did not start or emitted error,
\* completed with its exit code and timedOut flag when the process closed.  A
\* call with a blank id and a call whose log write fails settle without entry.
C16_OneEntryUnlessBlankOrLogFailure ==
  \A c \in RunnerCallIds :
    /\ Cardinality(EntriesOf(c)) <= 1
    /\ runnerCalls[c].pc \in {"start", "spawn", "running", "log"} => EntriesOf(c) = {}
    /\ runnerCalls[c].pc = "logged" => Cardinality(EntriesOf(c)) = 1
    /\ runnerCalls[c].pc = "settled" =>
         IF runnerCalls[c].outcome \in {"EMPTY_ID", "LOG_ERROR"}
         THEN /\ EntriesOf(c) = {}
              /\ runnerCalls[c].outcome = "EMPTY_ID" <=> BlankCommandId(runnerCalls[c].commandId)
         ELSE /\ Cardinality(EntriesOf(c)) = 1
              /\ \A i \in EntriesOf(c) :
                   /\ runnerLog[i].event = EventOfOutcome(c)
                   /\ runnerLog[i].commandId = Trim(runnerCalls[c].commandId)
                   /\ runnerLog[i].event = "rejected" <=> NotAllowed(c)
                   /\ runnerLog[i].event = "completed" =>
                        /\ c \in runnerProcs
                        /\ runnerLog[i].exitCode = runnerCalls[c].result.exitCode
                        /\ runnerLog[i].timedOut = runnerCalls[c].result.timedOut
                   /\ c \notin runnerProcs => runnerLog[i].event # "completed"

\* one call returned a timed-out result, the other failed to spawn: two entries
C16_Witness ==
  /\ \A c \in RunnerCallIds : runnerCalls[c].pc = "settled"
  /\ Len(runnerLog) = 2
  /\ runnerLog[1].event = "completed"
  /\ runnerLog[1].timedOut
  /\ runnerLog[2].event = "spawn_failed"
  /\ runnerLog[2].call \notin runnerProcs


\* the four conditions of C17, read off the diff outputs
HasDeletion(input) ==
  \E i \in 1..Len(input.nameStatusOutput) :
    LET parts == input.nameStatusOutput[i]
    IN Len(parts) >= 2 /\ parts[1] = "D"

ChangedPathsOf(input) ==
  {IF Len(input.nameStatusOutput[i]) >= 3
   THEN input.nameStatusOutput[i][3] ELSE input.nameStatusOutput[i][2] :
     i \in {j \in 1..Len(input.nameStatusOutput) : Len(input.nameStatusOutput[j]) >= 2}}
  \cup {input.numstatOutput[i][3] :
          i \in {j \in 1..Len(input.numstatOutput) :
                   /\ input.numstatOutput[j][1] \in {"-", "0", "1", "250"}
                   /\ input.numstatOutput[j][2] \in {"-", "0", "1", "250"}}}

Count(raw) == IF raw = "250" THEN 250 ELSE IF raw = "1" THEN 1 ELSE 0

RECURSIVE LinesOf(_)
LinesOf(diffOutput) ==
  IF diffOutput = <<>> THEN 0
  ELSE LET parts == Head(diffOutput)
       IN (IF parts[1] \in {"-", "0", "1", "250"} /\ parts[2] \in {"-", "0", "1", "250"}
           THEN Count(parts[1]) + Count(parts[2]) ELSE 0) + LinesOf(Tail(diffOutput))

FileThresholdOf(input) ==
  IF input.largeChangeFileThreshold = Undefined THEN 20 ELSE input.largeChangeFileThreshold[2]

LineThresholdOf(input) ==
  IF input.largeChangeLineThreshold = Undefined THEN 500 ELSE input.largeChangeLineThreshold[2]

RiskPresent(input) ==
  \/ HasDeletion(input)
  \/ \E path \in ChangedPathsOf(input) : SecurityPathPattern(path)
  \/ Cardinality(ChangedPathsOf(input)) >= FileThresholdOf(input)
  \/ LinesOf(input.numstatOutput) >= LineThresholdOf(input)

CommandFailed(result) == result.supplied /\ (result.timedOut \/ result.exitCode # 0)

\* C17: for outputs of successful diff commands (or with no results supplied)
\* requiresApproval is true iff a file has status D, or a changed path matches
\* the security pattern, or the number of changed files is >= the file threshold
\* (default 20), or the added plus deleted lines are >= the line threshold
\* (default 500).
C17_ApprovalIffRisk ==
  (/\ fnResult.done
   /\ ~CommandFailed(fnArgs.nameStatusResult)
   /\ ~CommandFailed(fnArgs.numstatResult))
    => (fnResult.requiresApproval <=> RiskPresent(fnArgs))

\* exactly the default file threshold is reached, nothing else: approval required
C17_Witness ==
  /\ fnResult.done
  /\ fnArgs.largeChangeFileThreshold = Undefined
  /\ ~CommandFailed(fnArgs.nameStatusResult)
  /\ ~CommandFailed(fnArgs.numstatResult)
  /\ fnResult.changedFileCount = 20
  /\ fnResult.reasons = <<"large_files">>
  /\ fnResult.requiresApproval

\* C18: when a diff command failed and the diff shows no deletion, no security
\* path and no threshold reached, the failure is listed in reasons but
\* requiresApproval is false.
C18_FailureAloneNoApproval ==
  (/\ fnResult.done
   /\ CommandFailed(fnArgs.nameStatusResult) \/ CommandFailed(fnArgs.numstatResult)
   /\ ~RiskPresent(fnArgs))
    => /\ Len(fnResult.reasons) > 0
       /\ ~fnResult.requiresApproval


\* the updaters whose result breaks a validation rule
InvalidatingUpdaters ==
  {"blank_status", "negative_retries", "numeric_current_phase", "phase_without_id",
   "phases_not_array"}

\* the last call was an update that C19 says fails
UpdateMustFail ==
  /\ writer.op.kind = "update"
  /\ \/ writer.op.updater = "throws"
     \/ writer.op.updater \in InvalidatingUpdaters
     \/ ~writer.before.found /\ ~writer.op.createIfMissing

\* C19: update fails and leaves the state file as it was (creating none if there
\* was none) when the updater throws, when the resulting state breaks a
\* validation rule, or when the file is missing and createIfMissing is not given.
C19_FailedUpdateLeavesFile ==
  /\ UpdateMustFail =>
       /\ writer.pc = "idle"
       /\ writer.outcome \in {"missing", "updater_threw", "invalid"}
       /\ StateFile(fs) = writer.before
       /\ fs.tempIno = 0
  /\ writer.outcome \in {"missing", "updater_threw", "invalid", "write_failed", "rename_failed"}
       => StateFile(fs) = writer.before

\* an update whose result has a negative retries count failed after an earlier
\* write: the file still holds what that write left
C19_Witness ==
  /\ writer.calls = 2
  /\ writer.op.kind = "update"
  /\ writer.op.updater = "negative_retries"
  /\ writer.outcome = "invalid"
  /\ writer.before.found
  /\ writer.before.content # Serialize(StateOnDisk)
  /\ StateFile(fs) = writer.before

\* C20: a read concurrent with save or update returns the complete previous or
\* the complete new snapshot, never partial content; and at every step of a
\* write, a crash included, the file holds the last fully written snapshot.
C20_AtomicSnapshots ==
  /\ reader.pc = "idle" => reader.observed \in reader.candidates
  /\ reader.pc = "reading" =>
       \E snapshot \in reader.candidates :
         /\ Len(reader.buffer) <= Len(snapshot.content)
         /\ reader.buffer = SubSeq(snapshot.content, 1, Len(reader.buffer))
  /\ reader.observed.found => Parses(reader.observed.content)
  /\ StateFile(fs) = writer.committed
  /\ StateFileExists(fs) => Parses(StateFileContent(fs))

\* the reader opened the file before a rename and returned the previous snapshot
\* after it; the next write crashed with a half-written temp file and the file
\* still holds the snapshot of the first write
C20_Witness ==
  /\ reader.reads > 0
  /\ reader.pc = "idle"
  /\ reader.observed.found
  /\ Cardinality(reader.candidates) = 2
  /\ reader.observed # StateFile(fs)
  /\ writer.pc = "crashed"
  /\ fs.tempIno # 0
  /\ Len(fs.inodes[fs.tempIno]) = 1
  /\ StateFile(fs) = writer.committed
  /\ StateFile(fs) \in reader.candidates

(***************************************************************************)
(* Artifacts of a run.                                                     *)
(***************************************************************************)
\* C21: within one run no artifact path is written more than once, for every
\* configured list of check command ids.
C21_NoPathWrittenTwice ==
  \A i, j \in DOMAIN artifactFiles :
    i # j => artifactFiles[i] # artifactFiles[j]

RawFiles == {artifactFiles[i] : i \in {j \in DOMAIN artifactFiles : artifactFiles[j].kind = "raw"}}

Recorded(st) == {st.artifacts[i] : i \in DOMAIN st.artifacts}

\* C24: whenever the provider call of an LLM phase returns, the raw output is written
\* as <phase>/iter-NNNN.raw.txt and recorded in the RunState at once, before any
\* post-processing; every raw output written stays recorded, and the state persisted
\* when the run stops references it, also when the post-processing failed.
C24_RawOutputRecorded ==
  /\ [][(pc = "provider" /\ pc' # "provider" /\ failure'.message # "provider failed")
         => /\ Artifact(Phase.id, iteration, "raw") \in RawFiles'
            /\ Artifact(Phase.id, iteration, "raw") \in Recorded(state')]_vars
  /\ [](RawFiles \subseteq Recorded(state))
  /\ [](Stopped => RawFiles \subseteq Recorded(disk))

C24_Witness ==
  /\ pc = "done"
  /\ disk.status = "failed"
  /\ failure.message = "patch apply failed"
  /\ Artifact(failure.phase, iteration, "raw") \in Recorded(disk)

\* the role of a phase is developer or fixer, whatever its case and surrounding blanks
DeveloperOrFixer(phaseId) ==
  /\ PhaseOf(workflow, phaseId).type = "llm"
  /\ TrimLower(PhaseOf(workflow, phaseId).role) \in {"developer", "fixer"}

PatchAndGatekeeperKinds ==
  {"patch", "diff", "diffstat", "gatekeeper-risk", "gatekeeper-approval", "check"}

\* C26: patch extraction, patch application and the Gatekeeper flow happen only in
\* LLM phases whose role is developer or fixer: only such a phase is ever in a patch
\* or Gatekeeper step, owns a patch, diff, diffstat or Gatekeeper artifact, or has
\* changed the workspace; a manager phase never does.
C26_PatchFirstRolesOnly ==
  /\ pc \in {"apply", "capture", "inspect", "gk_approval", "checks"}
       => DeveloperOrFixer(currentPhaseId)
  /\ \A i \in DOMAIN artifactFiles :
       artifactFiles[i].kind \in PatchAndGatekeeperKinds
         => DeveloperOrFixer(artifactFiles[i].phase)
  /\ \A it \in applied :
       \E i \in DOMAIN artifactFiles :
         /\ artifactFiles[i].iteration = it
         /\ artifactFiles[i].kind = "patch"
         /\ DeveloperOrFixer(artifactFiles[i].phase)

\* a manager phase and a developer phase have both run under a Gatekeeper
C26_Witness ==
  /\ pc = "done"
  /\ options.gatekeeper
  /\ applied # {}
  /\ \E i \in DOMAIN artifactFiles :
       /\ artifactFiles[i].kind = "manager-update"
       /\ TrimLower(PhaseOf(workflow, artifactFiles[i].phase).role) = "manager"
  /\ \E i \in DOMAIN artifactFiles : artifactFiles[i].kind = "gatekeeper-risk"

(***************************************************************************)
(* Errors of the verification checks.                                      *)
(***************************************************************************)
\* a check command has just raised a CommandRunnerError
CheckCommandRaises ==
  /\ pc = "checks"
  /\ failure' = [phase |-> Phase.id, message |-> "check command failed to run"]

\* C27 as stated: when a verification check command raises a CommandRunnerError, the
\* check counts as failed and the Gatekeeper decides auto_fix while retries remain,
\* fail otherwise.
C27_CheckErrorSurfacedAsDecision ==
  [][CheckCommandRaises
       => /\ Len(decisions') = Len(decisions) + 1
          /\ Last(decisions') = IF state.retries < maxAutoFixRetries
                                 THEN "auto_fix" ELSE "fail"]_vars

\* C27: when a verification check command raises a CommandRunnerError, the error is
\* fatal to the phase and the run: no Gatekeeper decision is taken, no auto-fix is
\* started even while retries remain, no check artifact is written, and the run
\* stops with the phase and the run failed and that state persisted.
C27_CheckErrorFailsRun ==
  [][CheckCommandRaises
       => /\ decisions' = decisions
          /\ state'.retries = state.retries
          /\ autoFixFrom' = autoFixFrom
          /\ artifactFiles' = artifactFiles
          /\ state'.status = "failed"
          /\ state'.phases[Phase.id] =
               [status |-> "failed", error |-> "check command failed to run"]
          /\ disk' = NormalizeRunState(state')
          /\ pc' = "exit"]_vars

\* a check command raised while retries remained
C27_Witness ==
  /\ pc = "done"
  /\ failure.message = "check command failed to run"
  /\ state.retries < maxAutoFixRetries
  /\ state.status = "failed"

(***************************************************************************)
(* External calls in flight.                                               *)
(***************************************************************************)
\* C28 as stated: within one run at most one external call is in flight at any time.
C28_AtMostOneInFlight == inFlight <= 1

\* C28: within one run at most one external call is in flight at any time, except
\* in the risk inspection of the Gatekeeper, which starts its two diff commands
\* together: two calls are in flight only there, and when one of the two fails the
\* run, the other may still be running after the run has stopped.  Provider,
\* approval handler, patch apply, diff capture and the checks run one at a time.
C28_OnlyRiskInspectionOverlaps ==
  /\ inFlight \in 0..2
  /\ inFlight = 2 => pc = "inspect"
  /\ pc \in {"approval", "provider", "apply", "capture", "gk_approval", "checks"}
       => inFlight = 1
  /\ pc \in {"loop", "resolve"} => inFlight = 0
  /\ (Stopped /\ inFlight > 0) => failure.message = "risk inspection failed"

\* both diff commands of the risk inspection are running
C28_Witness == pc = "inspect" /\ inFlight = 2

(***************************************************************************)
(* Provider of an LLM phase.                                               *)
(***************************************************************************)
\* a string option that is given and not blank
IsSet(s) == s # None /\ s \notin {"", " "}

\* the entries of the role map under the role of the phase
RoleEntries(phase) ==
  {e[2] : e \in {x \in runInput.roleProviderMap : x[1] = TrimLower(phase.role)}}

\* the id the priority order yields: phase, then role map, then run default
PriorityProviderIds(phase) ==
  IF IsSet(phase.provider) THEN {phase.provider}
  ELSE IF \E id \in RoleEntries(phase) : IsSet(id) THEN {id \in RoleEntries(phase) : IsSet(id)}
  ELSE IF IsSet(runInput.defaultProviderId) THEN {runInput.defaultProviderId}
  ELSE {}

\* C25: the provider id of an LLM phase is the phase-level provider if set, otherwise
\* the role map's entry for the role of the phase if present, otherwise the default
\* provider id of the run; if none of the three yields an id, the phase and the run
\* fail and no provider is invoked for that phase.
C25_ProviderPriority ==
  /\ [](pc = "provider" => PriorityProviderIds(Phase) = {providerId})
  /\ [][pc = "resolve" /\ PriorityProviderIds(Phase) = {}
         => /\ pc' = "exit"
            /\ calls' = calls
            /\ state'.status = "failed"
            /\ state'.phases[Phase.id].status = "failed"]_vars
  /\ [][calls'.provider # calls.provider
         => pc = "resolve" /\ PriorityProviderIds(Phase) = {providerId'}]_vars

\* the phase names a provider while the role map and the run offer others
C25_Witness ==
  /\ pc = "provider"
  /\ providerId = "claude"
  /\ RoleEntries(Phase) = {"gemini"}
  /\ runInput.defaultProviderId = "mock"

(***************************************************************************)
(* Termination.                                                            *)
(***************************************************************************)
\* C29: provided every provider call, approval-handler call and external command
\* eventually returns, Orchestrator.run eventually returns for every accepted
\* workflow, cyclic phase graphs and checks that fail forever included: the number of
\* phase executions never exceeds maxSteps and the run reaches its return.
C29_RunReturns ==
  /\ [](iteration <= workflow.maxSteps)
  /\ <>(pc = "done")

\* a cyclic run ended by maxSteps exhaustion
C29_Witness ==
  /\ pc = "done"
  /\ iteration = workflow.maxSteps
  /\ \E id \in IdsOf(workflow.phases) : CountOf(executedPhases, id) >= 2
  /\ failure = NoFailure
  /\ state.status = "failed"
  /\ Truthy(state.current_phase)

(***************************************************************************)
(* ArtifactStore.                                                          *)
(***************************************************************************)
\* an index file that cannot be parsed or has the wrong shape
BadIndexKinds == {"corrupt", "wrong_shape", "artifact"}

\* C22 as stated: list returns the records of all artifact files present under the
\* artifacts root both when index.json is missing and when it is corrupt, and a
\* later write succeeds in both cases.
C22_ListAndWriteSurviveBadIndex ==
  /\ (artCall.op = "list" /\ artCall.indexBefore \in BadIndexKinds \cup {"missing"})
       => artCall.ok /\ artCall.records = artCall.filesBefore
  /\ (artCall.op = "write" /\ artCall.accepted
         /\ artCall.indexBefore \in BadIndexKinds \cup {"missing"})
       => artCall.ok

\* C22: when index.json is missing, list returns the records of all artifact files
\* present in the phase directories under the artifacts root, by scanning, and a
\* later write of an artifact into a phase directory succeeds; when index.json is
\* corrupt (unparseable or of the wrong shape), list fails, and a later write
\* writes its artifact file and then fails at the update of the index.
C22_ScanOnlyWhenIndexMissing ==
  /\ (artCall.op = "list" /\ artCall.indexBefore = "missing")
       => /\ artCall.ok
          /\ artCall.records = {f \in artCall.filesBefore : Len(f) >= 2}
  /\ (artCall.op = "list" /\ artCall.indexBefore \in BadIndexKinds) => ~artCall.ok
  /\ (artCall.op = "write" /\ artCall.accepted /\ Len(artCall.path) >= 2
         /\ artCall.indexBefore = "missing")
       => artCall.ok /\ artCall.path \in artFiles
  /\ (artCall.op = "write" /\ artCall.accepted /\ artCall.indexBefore \in BadIndexKinds)
       => /\ ~artCall.ok
          /\ artCall.path \in artFiles \cup {IndexFilePath}

\* list has failed on a corrupt index while artifact files were present
C22_Witness ==
  /\ artCall.op = "list"
  /\ artCall.indexBefore = "corrupt"
  /\ artCall.filesBefore # {}
  /\ ~artCall.ok

\* C23: no write or read touches a path outside <runDir>/artifacts/<phase>/: the
\* phase of every accepted reference is exactly one path segment, the path lies in
\* the directory of that phase, and no write replaces the index file of the store.
C23_OnlyInsidePhaseDirectory ==
  /\ (artCall.op \in {"write", "read"} /\ artCall.accepted)
       => /\ Len(artCall.ref.phase.segs) = 1
          /\ artCall.ref.phase.segs[1] \notin {".", ".."}
          /\ Len(artCall.path) >= 2
          /\ artCall.path[1] = artCall.ref.phase.segs[1]
          /\ artCall.path # IndexFilePath
  /\ artIndex.kind # "artifact"

(***************************************************************************)
(* parseWorkflowYaml.                                                      *)
(***************************************************************************)
TransitionFields(phase) ==
  {phase.next, phase.nextOnPass, phase.nextOnFix, phase.nextOnAsk,
   phase.nextOnApprove, phase.nextOnReject}

PhaseTypeOf(entry) ==
  IF OptionalValue(entry.type) = None THEN "llm" ELSE OptionalValue(entry.type)

\* a transition key of the entry that does not belong to the type of its phase
ForeignTransitionKey(entry) ==
  IF PhaseTypeOf(entry) = "approval"
  THEN \E v \in {entry.next, entry.next_on_pass, entry.next_on_fix, entry.next_on_ask} :
         v # None
  ELSE \E v \in {entry.next_on_approve, entry.next_on_reject} : v # None

HasUnknownKey(doc) ==
  \/ doc.unknown_key # None
  \/ \E i \in DOMAIN doc.phaseEntries :
       \/ doc.phaseEntries[i].unknown_key # None
       \/ ForeignTransitionKey(doc.phaseEntries[i])

HasUnknownType(doc) ==
  \E i \in DOMAIN doc.phaseEntries :
    PhaseTypeOf(doc.phaseEntries[i]) \notin {"llm", "approval"}

\* the entry without the keys that are not of the format or not of its type
WithoutUnknownKeys(entry) ==
  IF PhaseTypeOf(entry) = "approval"
  THEN [entry EXCEPT !.unknown_key = None, !.next = None, !.next_on_pass = None,
                     !.next_on_fix = None, !.next_on_ask = None]
  ELSE [entry EXCEPT !.unknown_key = None, !.next_on_approve = None,
                     !.next_on_reject = None]

Stripped(doc) ==
  [doc EXCEPT !.unknown_key = None,
              !.phaseEntries = [i \in DOMAIN doc.phaseEntries |->
                                  WithoutUnknownKeys(doc.phaseEntries[i])]]

SuspensionPoints ==
  {"approval", "provider", "apply", "capture", "inspect", "gk_approval", "checks"}

\* what a snapshot and the RunState in memory are compared on
Core(st) ==
  [status |-> st.status, current_phase |-> st.current_phase, retries |-> st.retries,
   phases |-> [p \in DOMAIN st.phases |-> st.phases[p].status]]

\* C32: while a provider, approval, patch or Gatekeeper call is pending and when run
\* has returned, the snapshot on disk has the status, current_phase, retries and
\* phase statuses of the RunState in memory; a phase is persisted as running and as
\* current_phase while its provider or approval call is pending; the state run
\* returns is the last snapshot written.
C32_SnapshotFollowsState ==
  /\ pc \in SuspensionPoints \cup {"done"} => Core(disk) = Core(state)
  /\ pc \in {"provider", "approval"} =>
       /\ disk.current_phase = currentPhaseId
       /\ disk.phases[currentPhaseId].status = "running"
  /\ pc = "done" => disk = NormalizeRunState(state)

\* a run has returned completed after a retry was counted and persisted
C32_Witness ==
  /\ pc = "done"
  /\ state.retries > 0
  /\ state.status = "completed"
  /\ Len(executedPhases) > 1

\* the artifact files a step writes
WrittenBy(before, after) == {after[i] : i \in (DOMAIN after) \ (DOMAIN before)}

RECURSIVE DecimalValue(_)
DecimalValue(digits) ==
  IF digits = <<>> THEN 0
  ELSE 10 * DecimalValue(SubSeq(digits, 1, Len(digits) - 1)) + Last(digits)

PhaseExecutionStarts == pc = "loop" /\ pc' \in {"approval", "resolve"}

Fences(text) == {i \in 1..Len(text) : text[i].kind \in FenceKinds}

\* the fence at i opens a fenced block of the text: the fences pair up in order
OpensBlock(text, i) ==
  /\ i \in Fences(text)
  /\ Cardinality({j \in Fences(text) : j < i}) % 2 = 0
  /\ \E j \in Fences(text) : j > i

ContentOfBlock(text, i) ==
  SubSeq(text, i + 1, SetMin({j \in Fences(text) : j > i}) - 1)

BlocksLabelled(text, language) ==
  {i \in 1..Len(text) : OpensBlock(text, i) /\ FenceLanguage(text[i].kind) = language}

HasPatchSection(text) == \E i \in 1..Len(text) : text[i].kind = "h_patch"

SectionContent(text) ==
  LET start == SetMin({i \in 1..Len(text) : text[i].kind = "h_patch"})
      headings == {i \in (start + 1)..Len(text) : text[i].kind \in {"h_patch", "h3"}}
  IN SubSeq(text, start + 1, IF headings = {} THEN Len(text) ELSE SetMin(headings) - 1)

\* the candidate the priority order names
SelectedSource(text) ==
  IF BlocksLabelled(text, "diff") # {} THEN "diff_code_block"
  ELSE IF BlocksLabelled(text, "patch") # {} THEN "patch_code_block"
  ELSE IF HasPatchSection(text) THEN "patch_section"
  ELSE None

SelectedCandidate(text) ==
  IF SelectedSource(text) = "diff_code_block"
  THEN ContentOfBlock(text, SetMin(BlocksLabelled(text, "diff")))
  ELSE IF SelectedSource(text) = "patch_code_block"
  THEN ContentOfBlock(text, SetMin(BlocksLabelled(text, "patch")))
  ELSE SectionContent(text)

HasWrapper(lines) ==
  \E i, j \in 1..Len(lines) : i < j /\ lines[i].kind = "begin" /\ lines[j].kind = "end"

InsideWrapper(lines) ==
  LET b == SetMin({i \in 1..Len(lines) :
                     /\ lines[i].kind = "begin"
                     /\ \E j \in (i + 1)..Len(lines) : lines[j].kind = "end"})
  IN SubSeq(lines, b + 1, SetMin({j \in (b + 1)..Len(lines) : lines[j].kind = "end"}) - 1)

SelectedPayload(text) ==
  IF HasWrapper(SelectedCandidate(text)) THEN InsideWrapper(SelectedCandidate(text))
  ELSE SelectedCandidate(text)

\* C34: extractPatchFromText takes the first fenced block labelled diff if there is
\* one, else the first fenced block labelled patch, else the ### PATCH section up to
\* the next ### heading, narrowed to the inside of a [PATCH_BEGIN]...[PATCH_END]
\* wrapper when present; the source names the candidate used; the result is
\* not_found when there is no candidate and invalid_format when the selected payload
\* has neither a diff --git header nor the ---, +++, @@ triad.
C34_PayloadByPriority ==
  fnResult.done =>
    LET text == fnArgs
        extraction == fnResult.extraction
    IN IF SelectedSource(text) = None
       THEN ~extraction.ok /\ extraction.reason = "not_found"
       ELSE /\ extraction.ok => /\ extraction.source = SelectedSource(text)
                                /\ extraction.patch = SelectedPayload(text)
            /\ ~AssertPatchShape(SelectedPayload(text)) =>
                 ~extraction.ok /\ extraction.reason = "invalid_format"

SignalSent == child.signals' # child.signals

\* C35: at the timeout callback a child that has not closed is sent SIGTERM, and it
\* is sent SIGKILL by the grace callback only if it still has not closed; a result
\* of a call whose timeout fired has timedOut = true; a call whose child closes
\* before the timeout sends no signal, ever, and its result has timedOut = false;
\* the promise settles once, also when both an error and a close event arrive.
C35_TimeoutProtocol ==
  /\ [](/\ child.settles <= 1
        /\ (child.errorSeen \/ child.closeSeen) => child.settles = 1
        /\ child.signals \in {<<>>, <<"SIGTERM">>, <<"SIGTERM", "SIGKILL">>}
        /\ child.timer # "fired" => child.signals = <<>>
        /\ child.timer = "fired" => child.signals # <<>>
        /\ child.outcome = "resolved" =>
             child.result.timedOut = (child.timer = "fired"))
  /\ [][/\ SignalSent =>
             /\ ~child.closeSeen
             /\ \/ child.timer = "due" /\ child.signals' = <<"SIGTERM">>
                \/ child.grace = "due" /\ child.signals' = <<"SIGTERM", "SIGKILL">>
        /\ (child.grace = "due" /\ child'.grace = "fired" /\ ~child.settled)
             => child.signals' = <<"SIGTERM", "SIGKILL">>
        /\ (child.closeSeen /\ child.timer # "fired") => ~SignalSent]_vars

\* the child was sent SIGTERM at the timeout and SIGKILL after the grace period,
\* then closed, and the call returned a result with timedOut = true
C35_Witness ==
  /\ child.signals = <<"SIGTERM", "SIGKILL">>
  /\ child.closeSeen
  /\ child.outcome = "resolved"
  /\ child.result.timedOut
  /\ child.settles = 1

Parts(text) == {text[i] : i \in DOMAIN text}

\* the checks that failed, in the order they ran
FailedChecks(results) == {i \in DOMAIN results : IsFailedResult(results[i])}

\* the feedback has a line for the check that ran i-th
ListedIn(feedback, result) ==
  \E j \in DOMAIN feedback.lines :
    /\ feedback.lines[j].commandId = result.commandId
    /\ IF result.exitCode = -1 THEN feedback.lines[j].exitCode.text = "null"
       ELSE DecimalValue(feedback.lines[j].exitCode.digits) = result.exitCode
    /\ feedback.lines[j].timedOut = (IF result.timedOut THEN "yes" ELSE "no")
    /\ feedback.lines[j].stderr.kept <= FeedbackLimit
    /\ feedback.lines[j].stderr.kept = (IF result.stderr.trimmed > FeedbackLimit
                                          THEN FeedbackLimit ELSE result.stderr.trimmed)

\* C36: when the prompts of the phase after an auto_fix decision are rendered,
\* latest_output and the output of the evaluator phase of the workflow contain the
\* feedback, and the feedback lists exactly the failed checks (exit code not 0 or
\* null, or timed out), each with command id, exit code, timeout flag and stderr
\* cut to the limit.
C36_FeedbackReachesFixer ==
  (fnResult.pc = "rendered" /\ fnResult.decision = "auto_fix") =>
    LET feedback == fnResult.evaluatorFeedback
        results == fnArgs.checkResults
    IN /\ feedback \in Parts(fnResult.rendered.latest_output)
       /\ fnArgs.evaluatePhaseId # None =>
            feedback \in Parts(fnResult.rendered.evaluator_output)
       /\ Len(feedback.lines) = Cardinality(FailedChecks(results))
       /\ \A i \in DOMAIN results :
            IsFailedResult(results[i]) <=> ListedIn(feedback, results[i])

\* prompts were rendered after an auto_fix decision on two checks of which the
\* second failed by timeout with a long stderr, in a workflow with an evaluator
\* that had an output of its own
C36_Witness ==
  /\ fnResult.pc = "rendered"
  /\ fnResult.decision = "auto_fix"
  /\ fnArgs.evaluatorRan
  /\ Len(fnArgs.checkResults) = 2
  /\ ~IsFailedResult(fnArgs.checkResults[1])
  /\ fnArgs.checkResults[2].timedOut
  /\ fnArgs.checkResults[2].stderr.trimmed > FeedbackLimit

TerminalRunStatuses == {"completed", "failed", "canceled", "awaiting_input"}

\* C37: run never returns with a status that is not terminal: whatever terminal_status
\* the phases of the accepted workflow carry, the status of the returned and of the
\* persisted RunState is completed, failed, canceled or awaiting_input.
C37_ReturnsTerminalStatus ==
  pc = "done" => /\ state.status \in TerminalRunStatuses
                 /\ disk.status \in TerminalRunStatuses

Written == {artifactFiles[i] : i \in DOMAIN artifactFiles}

\* C38: when a run has ended, every artifact file written during the run is listed
\* in the artifacts of the persisted RunState and in those of the returned state,
\* also when the phase that wrote it failed.
C38_EveryArtifactListed ==
  pc = "done" => /\ Written \subseteq Recorded(disk)
                 /\ Written \subseteq Recorded(state)

\* C39: with a Gatekeeper and check commands configured, a run ends completed only
\* if no verification took place or the most recent one passed: after an auto_fix
\* decision the run is not completed before a later verification passes, whatever
\* terminalStatus or transitions the failing phase carries.
C39_CompletedOnlyAfterPass ==
  (/\ pc = "done"
   /\ state.status = "completed"
   /\ options.gatekeeper
   /\ options.checkCommandIds # <<>>)
  => (decisions = <<>> \/ Last(decisions) = "pass")

RunningPhases(st) == {p \in DOMAIN st.phases : st.phases[p].status = "running"}

\* C40: in every snapshot persisted during a run at most one phase is running, and
\* it is the phase current_phase names; when run has returned no phase is running:
\* each is pending, completed or failed.
C40_OneRunningPhase ==
  /\ Cardinality(RunningPhases(disk)) <= 1
  /\ RunningPhases(disk) \subseteq {disk.current_phase}
  /\ pc = "done" =>
       /\ RunningPhases(state) = {}
       /\ \A p \in DOMAIN disk.phases :
            disk.phases[p].status \in {"pending", "completed", "failed"}

\* a run has returned after two phases ran one after the other and the second failed
C40_Witness ==
  /\ pc = "done"
  /\ Len(executedPhases) >= 1
  /\ \E p \in DOMAIN disk.phases : disk.phases[p].status = "failed"
  /\ \E p \in DOMAIN disk.phases : disk.phases[p].status = "completed"

====
